---------------------------- MODULE Spec2Model ----------------------------
(***************************************************************************)
(* Model of the ActivityWatch integration for Home Assistant               *)
(* (custom_components/activitywatch): the polling coordinator with its     *)
(* bucket discovery and window-switch notification, the read-only entity   *)
(* projections over the cached snapshot, the query_stats handler, the      *)
(* setup, unload and reload of config entries with the shared service, and *)
(* the config and options flows.                                           *)
(*                                                                         *)
(* Python values are encoded as follows.                                   *)
(*   str | None     a TLA+ string, None being the reserved string None     *)
(*   dict | None    a TLA+ function on the keys present, None being the    *)
(*                  reserved record NoneObj                                *)
(*   d.get(k, x)    Get(d, k, x)                                           *)
(*   text that is scanned character by character (bucket types, category   *)
(*   names) is a sequence of one-character strings                         *)
(*   a JSON value whose type the code tests with isinstance carries a tag  *)
(*   (JList, JStr, JNum, JObj)                                             *)
(*   a float duration is an integer count of quarter seconds, which floats *)
(*   represent and add exactly                                             *)
(***************************************************************************)
EXTENDS Integers, Sequences, FiniteSets, TLC

VARIABLES
    pc,                    \* position in the instance's life: new, finding_afk, first_refresh, ready, setup_failed
    device_name,           \* ActivityWatchCoordinator.device_name
    window_bucket,         \* ActivityWatchCoordinator.window_bucket
    afk_bucket,            \* ActivityWatchCoordinator.afk_bucket
    previous_window_app,   \* ActivityWatchCoordinator._previous_window_app
    data,                  \* DataUpdateCoordinator.data: the cached snapshot
    last_update_success,   \* DataUpdateCoordinator.last_update_success
    bus,                   \* notifications fired on the host's event bus, oldest first
    http_log,              \* client calls of the latest operation with their outcomes, in call order
    ticks,                 \* number of refreshes run so far
    polled,                \* history: some refresh has cached a window event
    afk_ever_cached,       \* history: some refresh has cached an AFK event
    entries,               \* hass.config_entries.async_entries(DOMAIN), in order
    service_call,          \* ServiceCall.data of the latest query_stats call
    service_response,      \* what the latest query_stats call returned or raised
    services,              \* hass.services: the registration of each registered service
    host_log,              \* calls the latest operation made to the host, in call order
    flow_input,            \* what was submitted to the latest config or options flow step
    flow_result,           \* FlowResult of the latest config or options flow step
    server_window,         \* the events the server's window bucket will hold as its latest, the current one first
    client_result          \* what the latest request of the API client returned or raised

coordinator_vars == <<pc, device_name, window_bucket, afk_bucket, previous_window_app,
                      data, last_update_success, bus, ticks, polled, afk_ever_cached>>

service_vars == <<entries, service_call, service_response>>

host_vars == <<services, host_log, flow_input, flow_result>>

api_vars == <<server_window, client_result>>

vars == <<coordinator_vars, http_log, service_vars, host_vars, api_vars>>

----------------------------------------------------------------------------
(* Bounds *)

MaxTicks == 3      \* refreshes per behaviour
MaxBuckets == 2    \* buckets in one listing

----------------------------------------------------------------------------
(* Python values *)

None == "None"
NoneObj == [none |-> TRUE]

Get(d, k, default) == IF k \in DOMAIN d THEN d[k] ELSE default

JList(s) == [t |-> "list", v |-> s]
JStr(s) == [t |-> "str", v |-> s]

isinstance_list(x) == x # NoneObj /\ x.t = "list"

Range(s) == {s[i] : i \in 1..Len(s)}

\* needle in haystack, for Python strings
IsSubstring(needle, haystack) ==
    \E i \in 0..(Len(haystack) - Len(needle)) :
        SubSeq(haystack, i + 1, i + Len(needle)) = needle

UpperChars == <<"A","B","C","D","E","F","G","H","I","J","K","L","M",
                "N","O","P","Q","R","S","T","U","V","W","X","Y","Z">>
LowerChars == <<"a","b","c","d","e","f","g","h","i","j","k","l","m",
                "n","o","p","q","r","s","t","u","v","w","x","y","z">>

LowerChar(c) ==
    IF \E i \in 1..26 : UpperChars[i] = c
    THEN LowerChars[CHOOSE i \in 1..26 : UpperChars[i] = c]
    ELSE c

\* str.lower()
lower(s) == [i \in 1..Len(s) |-> LowerChar(s[i])]

----------------------------------------------------------------------------
(* const.py, and the limit every get_events call of the coordinator passes *)

limit == 1

AwWatcher == <<"a","w","-","w","a","t","c","h","e","r","-">>
BUCKET_WINDOW == AwWatcher \o <<"w","i","n","d","o","w">>
BUCKET_AFK == AwWatcher \o <<"a","f","k">>
EVENT_ACTIVITY_SWITCH == "activitywatch_event"


----------------------------------------------------------------------------
(* Inputs: what the ActivityWatch server may answer *)

Work == <<"W","o","r","k">>
work == <<"w","o","r","k">>
Engineering == <<"E","n","g","i","n","e","e","r","i","n","g">>
Gaming == <<"G","a","m","i","n","g">>
WORK == <<"W","O","R","K">>

DeviceNames == {"Test-PC", "Laptop"}

\* Window events. The key "$category" is written category. Durations are in
\* quarter seconds: 482 is 120.5 s, 487 is 121.75 s.
WindowEvents ==
    { [id |-> 1, timestamp |-> "10:00", duration |-> 482,
       data |-> [app |-> "Code", title |-> "main.py", url |-> "",
                 category |-> JList(<<Work, Engineering>>)]],
      [id |-> 2, timestamp |-> "10:02", duration |-> 240,
       data |-> [app |-> "Firefox", title |-> "GitHub", url |-> "https://github.com",
                 category |-> JList(<<Gaming>>)]],
      [id |-> 3, timestamp |-> "10:03", duration |-> 487,
       data |-> [app |-> "Code", title |-> "Untitled"]],
      [id |-> 4, timestamp |-> "10:04", duration |-> 3,
       data |-> [title |-> "Desktop", category |-> JStr(Work)]],
      [id |-> 5, timestamp |-> "10:05"],
      [id |-> 6, timestamp |-> "10:06", duration |-> 0,
       data |-> [app |-> "Firefox", category |-> JList(<<>>)]] }

AfkEvents ==
    { [id |-> 10, timestamp |-> "10:00", duration |-> 1200, data |-> [status |-> "not-afk"]],
      [id |-> 11, timestamp |-> "09:55", duration |-> 2400, data |-> [status |-> "afk"]],
      [id |-> 12, timestamp |-> "09:50", duration |-> 4, data |-> [status |-> "hibernating"]],
      [id |-> 13, timestamp |-> "09:45", duration |-> 4, data |-> [other |-> "x"]] }

\* Sequences over S of length at most n
SeqUpTo(S, n) == UNION {[1..k -> S] : k \in 0..n}

\* Outcome of one client call: the value returned, or the exception raised
Ok(body) == [status |-> "ok", body |-> body]
ConnectionError == [status |-> "ActivityWatchApiConnectionError"]
ApiError == [status |-> "ActivityWatchApiError"]
Errors == {ConnectionError, ApiError}

WindowResponses == {Ok(b) : b \in SeqUpTo(WindowEvents, limit)} \cup Errors
AfkResponses == {Ok(b) : b \in SeqUpTo(AfkEvents, limit)} \cup Errors

\* Bucket listings, in the order of the server's JSON object
BucketIds == {"aw-watcher-window_host", "aw-watcher-afk_host", "aw-watcher-window_laptop"}
BucketInfos ==
    { [type |-> BUCKET_WINDOW, hostname |-> "host"],
      [type |-> BUCKET_AFK, hostname |-> "host"],
      [type |-> <<"m","y","-">> \o BUCKET_WINDOW \o <<"-","v","2">>, hostname |-> "host"],
      [hostname |-> "host"] }

Buckets ==
    { b \in SeqUpTo([id : BucketIds, info : BucketInfos], MaxBuckets) :
        \A i, j \in 1..Len(b) : b[i].id = b[j].id => i = j }

BucketResponses == {Ok(b) : b \in Buckets} \cup Errors

----------------------------------------------------------------------------
(* api.py *)

\* Variant of async_find_buckets: the type must equal the pattern
find_buckets_exact_type(buckets, bucket_type) ==
    LET matching == SelectSeq(buckets,
                        LAMBDA b : Get(b.info, "type", <<>>) = bucket_type)
    IN  [i \in 1..Len(matching) |-> matching[i].id]

\* ActivityWatchApiClient.async_find_buckets, applied to the listing returned
\* by async_get_buckets
async_find_buckets(buckets, bucket_type) ==
    LET matching == SelectSeq(buckets,
                        LAMBDA b : IsSubstring(bucket_type, Get(b.info, "type", <<>>)))
    IN  [i \in 1..Len(matching) |-> matching[i].id]

----------------------------------------------------------------------------
(* coordinator.py *)

\* truth value of a str | None
truthy(s) == s # None /\ s # ""

\* ActivityWatchData()
ActivityWatchData(window_event, afk_event) ==
    [window_event |-> window_event, afk_event |-> afk_event]

GetBucketsCall(outcome) == [call |-> "async_get_buckets", outcome |-> outcome]
GetEventsCall(bucket_id, outcome) ==
    [call |-> "async_get_events", bucket_id |-> bucket_id, limit |-> limit, outcome |-> outcome]

\* the bucket id async_setup keeps, given the ids found and the id held so far
first_bucket(found, held) == IF found # <<>> THEN found[1] ELSE held

Init ==
    /\ pc = "new"
    /\ device_name \in DeviceNames
    /\ window_bucket = None
    /\ afk_bucket = None
    /\ previous_window_app = None
    /\ data = NoneObj
    /\ last_update_success = TRUE
    /\ bus = <<>>
    /\ http_log = <<>>
    /\ ticks = 0
    /\ polled = FALSE
    /\ afk_ever_cached = FALSE
    /\ entries = << >>
    /\ service_call = NoneObj
    /\ service_response = NoneObj
    /\ services = << >>
    /\ host_log = << >>
    /\ flow_input = NoneObj
    /\ flow_result = NoneObj
    /\ server_window = << >>
    /\ client_result = NoneObj

\* async_setup, up to its first await: the window bucket
async_setup_window ==
    /\ pc = "new"
    /\ \E r \in BucketResponses :
        /\ http_log' = <<GetBucketsCall(r)>>
        /\ IF r.status = "ok"
           THEN /\ window_bucket' =
                      first_bucket(async_find_buckets(r.body, BUCKET_WINDOW), window_bucket)
                /\ pc' = "finding_afk"
           ELSE /\ pc' = "setup_failed"
                /\ UNCHANGED window_bucket
    /\ UNCHANGED <<device_name, afk_bucket, previous_window_app, data,
                   last_update_success, bus, ticks, polled, afk_ever_cached,
                   service_vars, host_vars, api_vars>>

\* async_setup, from its second await: the AFK bucket
async_setup_afk ==
    /\ pc = "finding_afk"
    /\ \E r \in BucketResponses :
        /\ http_log' = <<GetBucketsCall(r)>>
        /\ IF r.status = "ok"
           THEN /\ afk_bucket' =
                      first_bucket(async_find_buckets(r.body, BUCKET_AFK), afk_bucket)
                /\ pc' = "first_refresh"
           ELSE /\ pc' = "setup_failed"
                /\ UNCHANGED afk_bucket
    /\ UNCHANGED <<device_name, window_bucket, previous_window_app, data,
                   last_update_success, bus, ticks, polled, afk_ever_cached,
                   service_vars, host_vars, api_vars>>

\* the first event of a fetched list, None for an empty list
first_event(events) == IF events # <<>> THEN events[1] ELSE NoneObj

\* Variant of _async_update_data: a failed AFK fetch is swallowed and the
\* window half is returned alone
update_data_swallowing_afk_error(wr, ar) ==
    LET window_called == truthy(window_bucket)
        window_raised == window_called /\ wr.status # "ok"
        afk_called == ~window_raised /\ truthy(afk_bucket)
        afk_raised == afk_called /\ ar.status # "ok"
    IN  [ UpdateFailed |-> window_raised,
          data |-> ActivityWatchData(
                       IF window_called /\ ~window_raised
                       THEN first_event(wr.body) ELSE NoneObj,
                       IF afk_called /\ ~afk_raised
                       THEN first_event(ar.body) ELSE NoneObj),
          calls |-> (IF window_called
                     THEN <<GetEventsCall(window_bucket, wr)>> ELSE <<>>)
                    \o (IF afk_called
                        THEN <<GetEventsCall(afk_bucket, ar)>> ELSE <<>>) ]

\* Variant of _async_update_data: a bucket that was not discovered makes the
\* refresh fail
update_data_requiring_buckets(wr, ar) ==
    LET window_called == truthy(window_bucket)
        window_raised == window_called /\ wr.status # "ok"
        afk_called == ~window_raised /\ truthy(afk_bucket)
        afk_raised == afk_called /\ ar.status # "ok"
    IN  [ UpdateFailed |-> \/ window_raised \/ afk_raised
                           \/ ~truthy(window_bucket) \/ ~truthy(afk_bucket),
          data |-> ActivityWatchData(
                       IF window_called /\ ~window_raised
                       THEN first_event(wr.body) ELSE NoneObj,
                       IF afk_called /\ ~afk_raised
                       THEN first_event(ar.body) ELSE NoneObj),
          calls |-> (IF window_called
                     THEN <<GetEventsCall(window_bucket, wr)>> ELSE <<>>)
                    \o (IF afk_called
                        THEN <<GetEventsCall(afk_bucket, ar)>> ELSE <<>>) ]

\* Variant of _async_update_data: a half for which nothing was fetched keeps
\* the event of the previous snapshot
update_data_keeping_previous(wr, ar) ==
    LET window_called == truthy(window_bucket)
        window_raised == window_called /\ wr.status # "ok"
        afk_called == ~window_raised /\ truthy(afk_bucket)
        afk_raised == afk_called /\ ar.status # "ok"
        kept_window == IF data = NoneObj THEN NoneObj ELSE data.window_event
        kept_afk == IF data = NoneObj THEN NoneObj ELSE data.afk_event
    IN  [ UpdateFailed |-> window_raised \/ afk_raised,
          data |-> ActivityWatchData(
                       IF window_called /\ ~window_raised /\ wr.body # << >>
                       THEN wr.body[1] ELSE kept_window,
                       IF afk_called /\ ~afk_raised /\ ar.body # << >>
                       THEN ar.body[1] ELSE kept_afk),
          calls |-> (IF window_called
                     THEN <<GetEventsCall(window_bucket, wr)>> ELSE <<>>)
                    \o (IF afk_called
                        THEN <<GetEventsCall(afk_bucket, ar)>> ELSE <<>>) ]

\* _async_update_data up to the call of _fire_window_switch_event, given the
\* outcomes wr and ar the two fetches would have: whether UpdateFailed is
\* raised, the ActivityWatchData built, and the client calls made
_async_update_data(wr, ar) ==
    LET window_called == truthy(window_bucket)
        window_raised == window_called /\ wr.status # "ok"
        afk_called == ~window_raised /\ truthy(afk_bucket)
        afk_raised == afk_called /\ ar.status # "ok"
    IN  [ UpdateFailed |-> window_raised \/ afk_raised,
          data |-> ActivityWatchData(
                       IF window_called /\ ~window_raised
                       THEN first_event(wr.body) ELSE NoneObj,
                       IF afk_called /\ ~afk_raised
                       THEN first_event(ar.body) ELSE NoneObj),
          calls |-> (IF window_called
                     THEN <<GetEventsCall(window_bucket, wr)>> ELSE <<>>)
                    \o (IF afk_called
                        THEN <<GetEventsCall(afk_bucket, ar)>> ELSE <<>>) ]

\* the notification of a window switch
window_switch(device, current_app, event_data) ==
    [ event_type |-> EVENT_ACTIVITY_SWITCH,
      device_id |-> device,
      type |-> "window_switch",
      app |-> current_app,
      title |-> Get(event_data, "title", ""),
      url |-> Get(event_data, "url", "") ]

\* Variant of _fire_window_switch_event: after the first poll every window
\* event fires, the comparison with the baseline being left out
fire_without_comparison(previous, device, d) ==
    IF d.window_event = NoneObj
    THEN [previous_window_app |-> previous, fired |-> <<>>]
    ELSE LET event_data == Get(d.window_event, "data", << >>)
             current_app == Get(event_data, "app", None)
         IN  IF previous = None
             THEN [previous_window_app |-> current_app, fired |-> <<>>]
             ELSE [previous_window_app |-> current_app,
                   fired |-> <<window_switch(device, current_app, event_data)>>]

\* Variant of _fire_window_switch_event: a switch fires without moving the baseline
fire_keeping_baseline(previous, device, d) ==
    IF d.window_event = NoneObj
    THEN [previous_window_app |-> previous, fired |-> <<>>]
    ELSE LET event_data == Get(d.window_event, "data", << >>)
             current_app == Get(event_data, "app", None)
         IN  IF previous = None
             THEN [previous_window_app |-> current_app, fired |-> <<>>]
             ELSE IF current_app # previous
                  THEN [previous_window_app |-> previous,
                        fired |-> <<window_switch(device, current_app, event_data)>>]
                  ELSE [previous_window_app |-> previous, fired |-> <<>>]

\* _fire_window_switch_event: the baseline it leaves and the notifications it fires
_fire_window_switch_event(previous, device, d) ==
    IF d.window_event = NoneObj
    THEN [previous_window_app |-> previous, fired |-> <<>>]
    ELSE LET event_data == Get(d.window_event, "data", << >>)
             current_app == Get(event_data, "app", None)
         IN  IF previous = None
             THEN [previous_window_app |-> current_app, fired |-> <<>>]
             ELSE IF current_app # previous
                  THEN [previous_window_app |-> current_app,
                        fired |-> <<window_switch(device, current_app, event_data)>>]
                  ELSE [previous_window_app |-> previous, fired |-> <<>>]

\* Variant of async_refresh: a failed refresh forgets the discovered buckets
async_refresh_forgetting_buckets ==
    /\ pc \in {"first_refresh", "ready"}
    /\ ticks < MaxTicks
    /\ ticks' = ticks + 1
    /\ \E wr \in WindowResponses, ar \in AfkResponses :
        LET u == _async_update_data(wr, ar)
            f == _fire_window_switch_event(previous_window_app, device_name, u.data)
        IN  /\ http_log' = u.calls
            /\ IF u.UpdateFailed
               THEN /\ last_update_success' = FALSE
                    /\ pc' = IF pc = "first_refresh" THEN "setup_failed" ELSE pc
                    /\ window_bucket' = None
                    /\ afk_bucket' = None
                    /\ UNCHANGED <<data, previous_window_app, bus, polled, afk_ever_cached>>
               ELSE /\ last_update_success' = TRUE
                    /\ pc' = "ready"
                    /\ data' = u.data
                    /\ previous_window_app' = f.previous_window_app
                    /\ bus' = bus \o f.fired
                    /\ polled' = (polled \/ u.data.window_event # NoneObj)
                    /\ afk_ever_cached' = (afk_ever_cached \/ u.data.afk_event # NoneObj)
                    /\ UNCHANGED <<window_bucket, afk_bucket>>
    /\ UNCHANGED <<device_name, service_vars, host_vars, api_vars>>

\* one refresh of the coordinator: _async_update_data run by the host, which
\* caches the result, or on UpdateFailed keeps the previous one
async_refresh ==
    /\ pc \in {"first_refresh", "ready"}
    /\ ticks < MaxTicks
    /\ ticks' = ticks + 1
    /\ \E wr \in WindowResponses, ar \in AfkResponses :
        LET u == _async_update_data(wr, ar)
            f == _fire_window_switch_event(previous_window_app, device_name, u.data)
        IN  /\ http_log' = u.calls
            /\ IF u.UpdateFailed
               THEN /\ last_update_success' = FALSE
                    /\ pc' = IF pc = "first_refresh" THEN "setup_failed" ELSE pc
                    /\ UNCHANGED <<data, previous_window_app, bus, polled, afk_ever_cached>>
               ELSE /\ last_update_success' = TRUE
                    /\ pc' = "ready"
                    /\ data' = u.data
                    /\ previous_window_app' = f.previous_window_app
                    /\ bus' = bus \o f.fired
                    /\ polled' = (polled \/ u.data.window_event # NoneObj)
                    /\ afk_ever_cached' = (afk_ever_cached \/ u.data.afk_event # NoneObj)
    /\ UNCHANGED <<device_name, window_bucket, afk_bucket, service_vars, host_vars, api_vars>>

Next == async_setup_window \/ async_setup_afk \/ async_refresh

Spec == Init /\ [][Next]_vars

----------------------------------------------------------------------------
(* binary_sensor.py and sensor.py: projections of the cached snapshot.      *)
(* A bool | None is "on", "off" or None.                                    *)

\* Variant of ActivityWatchActiveBinarySensor.is_on: on unless the status is "afk"
is_on_unless_afk(d) ==
    IF d = NoneObj \/ d.afk_event = NoneObj
    THEN None
    ELSE LET status == Get(Get(d.afk_event, "data", << >>), "status", "")
         IN  IF status # "afk" THEN "on" ELSE "off"

\* ActivityWatchActiveBinarySensor.is_on
ActiveBinarySensor_is_on(d) ==
    IF d = NoneObj \/ d.afk_event = NoneObj
    THEN None
    ELSE LET status == Get(Get(d.afk_event, "data", << >>), "status", "")
         IN  IF status = "not-afk" THEN "on" ELSE "off"

\* Variant of ActivityWatchCategoryBinarySensor.is_on: only the first entry is compared
is_on_for_first_entry(category, d) ==
    IF d = NoneObj \/ d.window_event = NoneObj
    THEN None
    ELSE LET event_data == Get(d.window_event, "data", << >>)
             category_list == Get(event_data, "category", JList(<< >>))
         IN  IF isinstance_list(category_list) /\ category_list.v # << >>
             THEN IF lower(category) = lower(category_list.v[1])
                  THEN "on" ELSE "off"
             ELSE "off"

\* ActivityWatchCategoryBinarySensor.is_on, for the sensor configured with category
CategoryBinarySensor_is_on(category, d) ==
    IF d = NoneObj \/ d.window_event = NoneObj
    THEN None
    ELSE LET event_data == Get(d.window_event, "data", << >>)
             category_list == Get(event_data, "category", JList(<< >>))
         IN  IF isinstance_list(category_list)
             THEN IF lower(category) \in {lower(c) : c \in Range(category_list.v)}
                  THEN "on" ELSE "off"
             ELSE "off"

Uncategorized == JStr(<<"U","n","c","a","t","e","g","o","r","i","z","e","d">>)

\* ActivityWatchCurrentActivitySensor.native_value: a str (JStr) or None (NoneObj)
native_value(d) ==
    IF d = NoneObj \/ d.window_event = NoneObj
    THEN NoneObj
    ELSE LET event_data == Get(d.window_event, "data", << >>)
             category == Get(event_data, "category", NoneObj)
         IN  IF isinstance_list(category) /\ Len(category.v) > 0
             THEN JStr(category.v[1])
             ELSE Uncategorized

\* Variant of int(): rounding to the nearest integer
int_rounding(q) == (q + 2) \div 4

\* int() of a duration given in quarter seconds: truncation towards zero
int(q) == IF q >= 0 THEN q \div 4 ELSE -((-q) \div 4)

\* ActivityWatchCurrentActivitySensor.extra_state_attributes
extra_state_attributes(d) ==
    IF d = NoneObj \/ d.window_event = NoneObj
    THEN NoneObj
    ELSE LET event_data == Get(d.window_event, "data", << >>)
             category == Get(event_data, "category", JList(<< >>))
         IN  [ app_name |-> Get(event_data, "app", ""),
               window_title |-> Get(event_data, "title", ""),
               url |-> Get(event_data, "url", ""),
               sub_categories |-> IF isinstance_list(category) THEN category.v ELSE << >>,
               duration |-> int(Get(d.window_event, "duration", 0)) ]

----------------------------------------------------------------------------
(* Properties of the coordinator and of the entities, checked under Spec *)

\* the app of an event, None when the event has no data or the data no app
AppOf(event) ==
    IF "data" \in DOMAIN event /\ "app" \in DOMAIN event.data
    THEN event.data.app ELSE None

TextOf(event, key) ==
    IF "data" \in DOMAIN event /\ key \in DOMAIN event.data
    THEN event.data[key] ELSE ""

\* the notification the interface documents for a switch to event
SwitchTo(event) ==
    [ event_type |-> "activitywatch_event",
      device_id |-> device_name,
      type |-> "window_switch",
      app |-> AppOf(event),
      title |-> TextOf(event, "title"),
      url |-> TextOf(event, "url") ]

\* a step that is a refresh which succeeded
SuccessfulTick == ticks' = ticks + 1 /\ last_update_success'

\* a step that is a refresh which succeeded and cached a window event
WindowTick == SuccessfulTick /\ data'.window_event # NoneObj

\* C1: on a fresh coordinator with a window bucket, a first successful tick
\* fetching E1 emits nothing, and a second successful tick fetching E2 with
\* another app emits exactly one notification, which carries the device name,
\* the type window_switch and E2's app, title and url.
C1_SwitchAfterFirstPoll ==
    [][ ( /\ ticks = 1
          /\ pc = "ready"
          /\ truthy(window_bucket)
          /\ data.window_event # NoneObj
          /\ WindowTick
          /\ AppOf(data.window_event) # AppOf(data'.window_event) )
        => /\ bus = << >>
           /\ bus' = <<SwitchTo(data'.window_event)>> ]_vars

\* C2: the second of two consecutive successful ticks whose window events
\* have equal apps emits nothing, whatever else differs between the events.
C2_NoEventWhenSameApp ==
    [][ ( /\ ticks >= 1
          /\ pc = "ready"
          /\ last_update_success
          /\ data.window_event # NoneObj
          /\ WindowTick
          /\ AppOf(data.window_event) = AppOf(data'.window_event) )
        => bus' = bus ]_vars

\* C2 witness: the second tick switched to Firefox (event 2) and the third
\* fetched event 6, Firefox again with every other field different, silently.
C2_Witness ==
    /\ ticks = 3
    /\ last_update_success
    /\ data.window_event # NoneObj
    /\ data.window_event.id = 6
    /\ Len(bus) = 1
    /\ bus[1].title = "GitHub"

\* C3: the first successful tick with a window event records its app and emits
\* nothing; every later one emits exactly one notification and moves the
\* baseline when the app differs from the baseline, a baseline of None included,
\* and does nothing when it is equal.
C3_TwoStateMachine ==
    [][ WindowTick =>
          LET app == AppOf(data'.window_event)
          IN  IF ~polled
              THEN bus' = bus /\ previous_window_app' = app
              ELSE IF app # previous_window_app
                   THEN /\ bus' = bus \o <<SwitchTo(data'.window_event)>>
                        /\ previous_window_app' = app
                   ELSE /\ bus' = bus
                        /\ previous_window_app' = previous_window_app ]_vars

\* C4: a refresh in which a fetch raised a connection error or an API error
\* ends as failed, emits nothing and leaves snapshot and baseline untouched.
C4_FailedTickChangesNothing ==
    [][ ( /\ ticks' = ticks + 1
          /\ \E i \in 1..Len(http_log') : http_log'[i].outcome \in Errors )
        => /\ ~last_update_success'
           /\ bus' = bus
           /\ data' = data
           /\ previous_window_app' = previous_window_app ]_vars

\* C4 witness: a refresh fetched a window event of a new app, then its AFK
\* fetch failed; the snapshot still holds the earlier event.
C4_Witness ==
    /\ ticks >= 2
    /\ ~last_update_success
    /\ data # NoneObj
    /\ data.window_event # NoneObj
    /\ Len(http_log) = 2
    /\ http_log[2].outcome = ConnectionError
    /\ http_log[1].outcome.status = "ok"
    /\ http_log[1].outcome.body # << >>
    /\ AppOf(http_log[1].outcome.body[1]) # previous_window_app
    /\ data.window_event # http_log[1].outcome.body[1]

\* the status of an AFK event, "" when the event carries none
StatusOf(event) ==
    IF "data" \in DOMAIN event /\ "status" \in DOMAIN event.data
    THEN event.data.status ELSE ""

AfkCached == data # NoneObj /\ data.afk_event # NoneObj
WindowCached == data # NoneObj /\ data.window_event # NoneObj

\* C5 as stated: the presence sensor is unknown exactly when no refresh has
\* ever cached an AFK event, on exactly when the cached status is "not-afk",
\* and off otherwise.
C5_UnknownIffNeverCached ==
    LET state == ActiveBinarySensor_is_on(data)
    IN  /\ (state = None) <=> ~afk_ever_cached
        /\ (state = "on") <=> (AfkCached /\ StatusOf(data.afk_event) = "not-afk")
        /\ state \in {None, "on", "off"}

\* C5 amended: the presence sensor is unknown exactly when the snapshot now
\* cached holds no AFK event (no refresh has succeeded, or the latest successful
\* one fetched none), on exactly when the cached status is "not-afk", and off
\* otherwise.
C5_UnknownIffNoneCached ==
    LET state == ActiveBinarySensor_is_on(data)
    IN  /\ (state = None) <=> ~AfkCached
        /\ (state = "on") <=> (AfkCached /\ StatusOf(data.afk_event) = "not-afk")
        /\ state \in {None, "on", "off"}

\* C5 witness: an AFK event was cached by an earlier refresh, the latest
\* successful refresh fetched none, and the sensor is unknown.
C5_Witness ==
    /\ afk_ever_cached
    /\ last_update_success
    /\ data # NoneObj
    /\ data.afk_event = NoneObj
    /\ ActiveBinarySensor_is_on(data) = None

\* two letters that differ at most in case
SameLetter(a, b) ==
    a = b \/ \E i \in 1..26 : {a, b} = {UpperChars[i], LowerChars[i]}

EqualIgnoringCase(x, y) ==
    Len(x) = Len(y) /\ \A i \in 1..Len(x) : SameLetter(x[i], y[i])

ConfiguredCategories ==
    {Work, work, WORK, Engineering, Gaming,
     <<"e","n","g","i","n","e","e","r","i","n","g">>, << >>}

\* the category list of an event, the empty list when it has none
CategoriesOf(event) ==
    IF /\ "data" \in DOMAIN event
       /\ "category" \in DOMAIN event.data
       /\ event.data.category.t = "list"
    THEN event.data.category.v ELSE << >>

\* C6: for every configured category, the category sensor is unknown when no
\* window event is cached, on when some entry of the event's category list, at
\* any position, equals the category ignoring case, and off otherwise.
C6_CategoryMatch ==
    \A c \in ConfiguredCategories :
        CategoryBinarySensor_is_on(c, data) =
            IF ~WindowCached THEN None
            ELSE IF \E i \in 1..Len(CategoriesOf(data.window_event)) :
                        EqualIgnoringCase(CategoriesOf(data.window_event)[i], c)
                 THEN "on" ELSE "off"

\* C6 witness: the cached event has the categories Work, Engineering; the
\* sensors for WORK and engineering are on, the one for Gaming is off.
C6_Witness ==
    /\ WindowCached
    /\ CategoriesOf(data.window_event) = <<Work, Engineering>>
    /\ CategoryBinarySensor_is_on(WORK, data) = "on"
    /\ CategoryBinarySensor_is_on(<<"e","n","g","i","n","e","e","r","i","n","g">>, data) = "on"
    /\ CategoryBinarySensor_is_on(Gaming, data) = "off"

\* C7: the current-activity value is None when no window event is cached, the
\* first entry of the category list when there is a non-empty list, and
\* "Uncategorized" otherwise; the duration attribute is the duration with its
\* fraction cut off.
C7_CurrentActivity ==
    /\ ~WindowCached =>
          native_value(data) = NoneObj /\ extra_state_attributes(data) = NoneObj
    /\ WindowCached =>
          LET categories == CategoriesOf(data.window_event)
              duration == IF "duration" \in DOMAIN data.window_event
                          THEN data.window_event.duration ELSE 0
              seconds == extra_state_attributes(data).duration
          IN  /\ native_value(data) =
                    IF categories # << >> THEN JStr(categories[1]) ELSE Uncategorized
              /\ 4 * seconds <= duration
              /\ duration < 4 * (seconds + 1)

\* C7 witness: the cached event lasts 120.5 s and has the categories Work,
\* Engineering: the value is Work and the duration attribute 120.
C7_Witness ==
    /\ WindowCached
    /\ data.window_event.id = 1
    /\ data.window_event.duration = 482
    /\ native_value(data) = JStr(Work)
    /\ extra_state_attributes(data).duration = 120

\* pattern occurs in text
Contains(text, pattern) ==
    \E i \in 1..Len(text) :
        \A k \in 1..Len(pattern) :
            i + k - 1 <= Len(text) /\ text[i + k - 1] = pattern[k]

\* the id of the first bucket of a listing whose type contains pattern, None
\* when there is none
FirstOfType(listing, pattern) ==
    LET hits == {i \in 1..Len(listing) :
                    /\ "type" \in DOMAIN listing[i].info
                    /\ Contains(listing[i].info.type, pattern)}
    IN  IF hits = {} THEN None
        ELSE listing[CHOOSE i \in hits : \A j \in hits : i <= j].id

FirstOrNone(events) == IF Len(events) = 0 THEN NoneObj ELSE events[1]

\* C8: discovery keeps, for each type, the first bucket id of the listing whose
\* type contains the pattern, and no id when none does; a successful refresh
\* asks the window bucket for the window half of the snapshot and the AFK bucket
\* for the AFK half, and a half without bucket is None.
C8_Discovery ==
    /\ pc = "finding_afk" =>
          /\ Len(http_log) = 1
          /\ http_log[1].call = "async_get_buckets"
          /\ window_bucket = FirstOfType(http_log[1].outcome.body, BUCKET_WINDOW)
          /\ afk_bucket = None
    /\ pc = "first_refresh" =>
          /\ Len(http_log) = 1
          /\ http_log[1].call = "async_get_buckets"
          /\ afk_bucket = FirstOfType(http_log[1].outcome.body, BUCKET_AFK)
    /\ (pc = "ready" /\ last_update_success) =>
          LET n == Len(http_log)
          IN  /\ n = (IF window_bucket = None THEN 0 ELSE 1)
                     + (IF afk_bucket = None THEN 0 ELSE 1)
              /\ \A i \in 1..n : http_log[i].call = "async_get_events"
              /\ IF window_bucket = None
                 THEN data.window_event = NoneObj
                 ELSE /\ http_log[1].bucket_id = window_bucket
                      /\ data.window_event = FirstOrNone(http_log[1].outcome.body)
              /\ IF afk_bucket = None
                 THEN data.afk_event = NoneObj
                 ELSE /\ http_log[n].bucket_id = afk_bucket
                      /\ data.afk_event = FirstOrNone(http_log[n].outcome.body)

\* C8 witness: the listing holds one window bucket and one AFK bucket, and
\* both ids are selected.
C8_Witness ==
    /\ pc = "first_refresh"
    /\ http_log[1].outcome.body =
          << [id |-> "aw-watcher-window_host",
              info |-> [type |-> BUCKET_WINDOW, hostname |-> "host"]],
             [id |-> "aw-watcher-afk_host",
              info |-> [type |-> BUCKET_AFK, hostname |-> "host"]] >>
    /\ window_bucket = "aw-watcher-window_host"
    /\ afk_bucket = "aw-watcher-afk_host"

\* a step that keeps both bucket ids and makes no call for the bucket listing
BucketsKept ==
    /\ window_bucket' = window_bucket
    /\ afk_bucket' = afk_bucket
    /\ \A i \in 1..Len(http_log') : http_log'[i].call # "async_get_buckets"

\* C9: once discovery has run, every refresh, whatever its outcome, leaves
\* both bucket ids as they are and does not ask for the bucket listing.
C9_BucketsFrozen ==
    [][ (pc \in {"first_refresh", "ready"}) => BucketsKept ]_vars

\* C9 witness: with both buckets discovered, a refresh has failed after others
\* ran, and both ids are still held.
C9_Witness ==
    /\ pc = "ready"
    /\ ticks >= 2
    /\ ~last_update_success
    /\ window_bucket # None
    /\ afk_bucket # None

----------------------------------------------------------------------------
(* services.py: the query_stats handler *)

MaxEntries == 2        \* loaded config entries
MaxQueryEvents == 2    \* merged events in one enumerated query response
MaxLongEvents == 12    \* merged events in the longest query response

JNull == [t |-> "null"]
JNum(n) == [t |-> "number", v |-> n]
JObj(d) == [t |-> "dict", v |-> d]

\* bool(x) of a JSON value
json_truthy(x) ==
    CASE x.t = "null" -> FALSE
      [] x.t = "number" -> x.v # 0
      [] x.t = "str" -> x.v # ""
      [] x.t = "list" -> x.v # << >>
      [] x.t = "dict" -> DOMAIN x.v # {}

\* Elements of the first result sequence: merged events (mappings), durations
\* in quarter seconds, and values that are no mappings.
QueryEvents ==
    { JObj([data |-> [app |-> "Code", category |-> JList(<<Work, Engineering>>)],
            duration |-> 42]),
      JObj([data |-> [app |-> "Firefox", category |-> JList(<<Gaming>>)],
            duration |-> 21]),
      JObj([data |-> [app |-> "Code"], duration |-> 6]),
      JObj([duration |-> 10]),
      JObj([data |-> [app |-> "Slack", category |-> JStr(Engineering)]]),
      JNum(7) }

\* A long result, as sort_by_duration returns it: longest first, durations of
\* 30.5 s, 28.75 s, 27 s, ..., the categories alternating and the app names
\* coming round again; every fifth event has no category list
LongAppNames == <<"Code", "Firefox", "Slack", "Terminal", "Mail", "Zoom", "Code">>

LongQueryEvent(i) ==
    LET app == LongAppNames[((i - 1) % Len(LongAppNames)) + 1]
        duration == 122 - 7 * (i - 1)
    IN  JObj([data |-> IF i % 5 = 0 THEN [app |-> app]
                       ELSE IF i % 2 = 1
                       THEN [app |-> app, category |-> JList(<<Work, Engineering>>)]
                       ELSE [app |-> app, category |-> JList(<<Gaming>>)],
              duration |-> duration])

LongQueryEvents(n) == [i \in 1..n |-> LongQueryEvent(i)]

\* Bodies of the response to POST /query/
QueryResults ==
    { JNull, JObj([detail |-> "x"]), JStr("oops"), JList(<< >>),
      JList(<<JNull>>), JList(<<JObj([duration |-> 10])>>) }
    \cup {JList(<<JList(events)>>) : events \in SeqUpTo(QueryEvents, MaxQueryEvents)}
    \cup {JList(<<JList(LongQueryEvents(n))>>) : n \in (MaxLongEvents - 3)..MaxLongEvents}

QueryResponses == {Ok(b) : b \in QueryResults} \cup Errors

\* datetime.now(timezone.utc), with the isoformat of its midnight
Nows == { [isoformat |-> "2024-01-15T10:30:00+00:00",
           midnight |-> "2024-01-15T00:00:00+00:00"] }

\* no keys
Empty == [k \in {} |-> 0]

\* ServiceCall.data as the schema admits it: device_id, and optionally
\* start_time, end_time and category
ServiceCalls ==
    { [device_id |-> d] @@ start_time @@ end_time @@ category :
        d \in DeviceNames \cup {"Unknown-PC"},
        start_time \in {Empty, [start_time |-> "2024-01-14T00:00:00+00:00"]},
        end_time \in {Empty, [end_time |-> "2024-01-15T09:00:00+00:00"]},
        category \in {Empty, [category |-> Work], [category |-> Gaming]} }

\* the loaded config entries: entry i holds its device name and, as runtime
\* data, its coordinator with its client
ConfigEntries(names) ==
    [i \in 1..Len(names) |->
        [entry_id |-> i, data |-> [device_name |-> names[i]],
         runtime_data |-> [client |-> i]]]

\* _find_client_for_device: the client, None (0) when no entry matches
_find_client_for_device(config_entries, device_id) ==
    LET matching == {i \in 1..Len(config_entries) :
                        Get(config_entries[i].data, "device_name", None) = device_id}
    IN  IF matching = {} THEN 0
        ELSE config_entries[CHOOSE i \in matching : \A j \in matching : i <= j]
                 .runtime_data.client

\* round() of a number of quarter seconds: to the nearest integer, a half to
\* the even one
round(q) ==
    LET floor == q \div 4
        rest == q % 4
    IN  IF rest < 2 THEN floor
        ELSE IF rest > 2 THEN floor + 1
        ELSE IF floor % 2 = 0 THEN floor ELSE floor + 1

\* Variant of result: every retained event is listed
result_untruncated(total_seconds, top_apps) ==
    [total_seconds |-> round(total_seconds), top_apps |-> top_apps]

\* the payload returned after the loop: the rounded total and top_apps[:10]
result(total_seconds, top_apps) ==
    [total_seconds |-> round(total_seconds),
     top_apps |-> SubSeq(top_apps, 1, IF Len(top_apps) < 10 THEN Len(top_apps) ELSE 10)]

Return(payload) == [kind |-> "return", value |-> payload]
Raise(exception) == [kind |-> "raise", exception |-> exception]

\* the loop of async_handle_query_stats over events[from..]: the exception it
\* raises if any, the total in quarter seconds and the entries appended
RECURSIVE aggregate(_, _, _, _, _)
aggregate(events, from, category_filter, total_seconds, top_apps) ==
    IF from > Len(events)
    THEN [raised |-> None, total_seconds |-> total_seconds, top_apps |-> top_apps]
    ELSE LET event == events[from]
         IN  IF event.t # "dict"
             THEN [raised |-> "AttributeError", total_seconds |-> total_seconds,
                   top_apps |-> top_apps]
             ELSE LET event_data == Get(event.v, "data", << >>)
                      app_name == Get(event_data, "app", "Unknown")
                      duration == Get(event.v, "duration", 0)
                      cat == Get(event_data, "category", JList(<< >>))
                      dropped == /\ category_filter # << >>
                                 /\ isinstance_list(cat)
                                 /\ lower(category_filter)
                                       \notin {lower(c) : c \in Range(cat.v)}
                  IN  IF dropped
                      THEN aggregate(events, from + 1, category_filter,
                                     total_seconds, top_apps)
                      ELSE aggregate(events, from + 1, category_filter,
                                     total_seconds + duration,
                                     Append(top_apps, [name |-> app_name,
                                                       seconds |-> round(duration)]))

\* Variant of async_handle_query_stats: when the query fails, the app of the
\* coordinator's cached window event is reported as the only top app
query_stats_from_snapshot(config_entries, call_data, now, q) ==
    LET device_id == call_data.device_id
        client == _find_client_for_device(config_entries, device_id)
        matching == {i \in 1..Len(config_entries) :
                        Get(config_entries[i].data, "device_name", None) = device_id}
        coordinator == config_entries[CHOOSE i \in matching : \A j \in matching : i <= j]
                           .runtime_data
        calls == << [call |-> "async_query", client |-> client, outcome |-> q] >>
    IN  IF client = 0
        THEN [ response |-> Return([error |-> <<"Device '", device_id, "' not found">>,
                                    total_seconds |-> 0, top_apps |-> << >>]),
               calls |-> << >> ]
        ELSE [ response |->
                   Return([total_seconds |-> 0,
                           top_apps |-> IF coordinator.data # NoneObj
                                           /\ coordinator.data.window_event # NoneObj
                                        THEN <<coordinator.data.window_event>>
                                        ELSE << >>]),
               calls |-> calls ]

\* async_handle_query_stats, given the time and the outcome q the query would
\* have: what the handler returns or raises, and the client calls it makes
async_handle_query_stats(config_entries, call_data, now, q) ==
    LET device_id == call_data.device_id
        client == _find_client_for_device(config_entries, device_id)
        start == IF "start_time" \in DOMAIN call_data /\ call_data.start_time # ""
                 THEN call_data.start_time ELSE now.midnight
        end == IF "end_time" \in DOMAIN call_data /\ call_data.end_time # ""
               THEN call_data.end_time ELSE now.isoformat
        timeperiod == <<start, "/", end>>
        category_filter == Get(call_data, "category", << >>)
        query_lines == << "events = query_bucket(find_bucket(\"aw-watcher-window-\"));",
                          "events = merge_events_by_keys(events, [\"app\"]);",
                          "RETURN = sort_by_duration(events);" >>
        calls == << [call |-> "async_query", client |-> client, query |-> query_lines,
                     timeperiods |-> <<timeperiod>>, outcome |-> q] >>
    IN  IF client = 0
        THEN [ response |-> Return([error |-> <<"Device '", device_id, "' not found">>,
                                    total_seconds |-> 0, top_apps |-> << >>]),
               calls |-> << >> ]
        ELSE IF q.status # "ok"
        THEN [ response |-> Return([error |-> <<q.status>>,
                                    total_seconds |-> 0, top_apps |-> << >>]),
               calls |-> calls ]
        ELSE IF ~json_truthy(q.body) \/ q.body.t # "list" \/ Len(q.body.v) = 0
        THEN [ response |-> Return([total_seconds |-> 0, top_apps |-> << >>]),
               calls |-> calls ]
        ELSE LET events == IF q.body.v[1].t = "list" THEN q.body.v[1].v ELSE << >>
                 loop == aggregate(events, 1, category_filter, 0, << >>)
             IN  [ response |->
                       IF loop.raised # None
                       THEN Raise(loop.raised)
                       ELSE Return(result(loop.total_seconds, loop.top_apps)),
                   calls |-> calls ]

SERVICE_QUERY_STATS == "query_stats"

\* Variant of async_register_services: registers without asking has_service
register_services_again(registered) ==
    [services |-> [name \in DOMAIN registered \cup {SERVICE_QUERY_STATS} |->
                      IF name = SERVICE_QUERY_STATS
                      THEN [handler |-> "async_handle_query_stats",
                            schema |-> "SERVICE_QUERY_STATS_SCHEMA",
                            supports_response |-> "ONLY"]
                      ELSE registered[name]],
     calls |-> << [call |-> "async_register", service |-> SERVICE_QUERY_STATS] >>]

\* async_register_services: the services it leaves and the host calls it makes
async_register_services(registered) ==
    IF SERVICE_QUERY_STATS \in DOMAIN registered
    THEN [services |-> registered, calls |-> << >>]
    ELSE [services |-> [name \in DOMAIN registered \cup {SERVICE_QUERY_STATS} |->
                           IF name = SERVICE_QUERY_STATS
                           THEN [handler |-> "async_handle_query_stats",
                                 schema |-> "SERVICE_QUERY_STATS_SCHEMA",
                                 supports_response |-> "ONLY"]
                           ELSE registered[name]],
          calls |-> << [call |-> "async_register", service |-> SERVICE_QUERY_STATS] >>]

\* async_unregister_services
async_unregister_services(registered) ==
    IF SERVICE_QUERY_STATS \in DOMAIN registered
    THEN [services |-> [name \in DOMAIN registered \ {SERVICE_QUERY_STATS} |->
                           registered[name]],
          calls |-> << [call |-> "async_remove", service |-> SERVICE_QUERY_STATS] >>]
    ELSE [services |-> registered, calls |-> << >>]

InitQuery ==
    /\ pc = "ready"
    /\ device_name \in DeviceNames
    /\ window_bucket = None
    /\ afk_bucket = None
    /\ previous_window_app = None
    /\ data = ActivityWatchData(NoneObj, NoneObj)
    /\ last_update_success = TRUE
    /\ bus = << >>
    /\ http_log = << >>
    /\ ticks = 0
    /\ polled = FALSE
    /\ afk_ever_cached = FALSE
    /\ entries \in {ConfigEntries(names) : names \in SeqUpTo(DeviceNames, MaxEntries) \ {<< >>}}
    /\ entries[1].data.device_name = device_name
    /\ service_call = NoneObj
    /\ service_response = NoneObj
    /\ services = async_register_services(<< >>).services
    /\ host_log = << >>
    /\ flow_input = NoneObj
    /\ flow_result = NoneObj
    /\ server_window = << >>
    /\ client_result = NoneObj

\* one call of the query_stats service; the handler reads nothing that an
\* earlier call wrote, so a behaviour makes one call
query_stats ==
    /\ service_call = NoneObj
    /\ \E call_data \in ServiceCalls, now \in Nows, q \in QueryResponses :
        LET h == async_handle_query_stats(entries, call_data, now, q)
        IN  /\ service_call' = call_data
            /\ service_response' = h.response
            /\ http_log' = h.calls
    /\ UNCHANGED <<coordinator_vars, entries, host_vars, api_vars>>

NextQuery == query_stats

SpecQuery == InitQuery /\ [][NextQuery]_vars

----------------------------------------------------------------------------
(* Properties of the query_stats handler, checked under SpecQuery *)

\* a response of the documented shape: a non-empty sequence whose first
\* element is a sequence of mappings
WellFormed(body) ==
    /\ body.t = "list"
    /\ Len(body.v) > 0
    /\ body.v[1].t = "list"
    /\ \A i \in 1..Len(body.v[1].v) : body.v[1].v[i].t = "dict"

Called == service_call # NoneObj

\* the call failed: no entry has the device name, or the query raised, or its
\* response is malformed
QueryFailed ==
    \/ \A i \in 1..Len(entries) : entries[i].data.device_name # service_call.device_id
    \/ http_log[1].outcome \in Errors
    \/ ~WellFormed(http_log[1].outcome.body)

\* C10: the handler always returns, never raises; when the device is unknown,
\* the query raised or the response is malformed in any way, the payload has
\* total_seconds = 0 and top_apps = [].
C10_NeverRaises ==
    Called =>
        /\ service_response.kind = "return"
        /\ QueryFailed =>
              /\ service_response.value.total_seconds = 0
              /\ service_response.value.top_apps = << >>

\* the payload of a call that returned
Returned == Called /\ service_response.kind = "return"

\* C11: in every failure path (unknown device, connection error, API error,
\* malformed response) the returned payload carries an error string besides
\* total_seconds = 0 and top_apps = []; a payload without an error field is
\* returned only for a well-formed response.
C11_ErrorOnFailure ==
    (Returned /\ QueryFailed) =>
        /\ "error" \in DOMAIN service_response.value
        /\ service_response.value.total_seconds = 0
        /\ service_response.value.top_apps = << >>

\* the merged events of a well-formed response, and the filter of the call
\* (the empty text when none is given)
EventsOf(body) == [i \in 1..Len(body.v[1].v) |-> body.v[1].v[i].v]
FilterOf(call_data) == IF "category" \in DOMAIN call_data THEN call_data.category ELSE << >>

DurationOf(event) == IF "duration" \in DOMAIN event THEN event.duration ELSE 0
NameOf(event) ==
    IF "data" \in DOMAIN event /\ "app" \in DOMAIN event.data
    THEN event.data.app ELSE "Unknown"

HasCategoryList(event) ==
    /\ "data" \in DOMAIN event
    /\ "category" \in DOMAIN event.data
    /\ event.data.category.t = "list"

\* the event's category list has an entry equal to the filter ignoring case
Matches(event, filter) ==
    /\ HasCategoryList(event)
    /\ \E i \in 1..Len(event.data.category.v) :
           EqualIgnoringCase(event.data.category.v[i], filter)

\* the integer nearest to q quarter seconds, the even one of two
Nearest(q) ==
    LET low == q \div 4
    IN  IF q - 4 * low < 2 THEN low
        ELSE IF q - 4 * low > 2 THEN low + 1
        ELSE CHOOSE n \in {low, low + 1} : n % 2 = 0

\* the events at the positions in S, in the order of the response
Keep(events, S) ==
    LET F[i \in 0..Len(events)] ==
            IF i = 0 THEN << >>
            ELSE IF i \in S THEN Append(F[i - 1], events[i]) ELSE F[i - 1]
    IN  F[Len(events)]

SumOfDurations(events) ==
    LET F[i \in 0..Len(events)] ==
            IF i = 0 THEN 0 ELSE F[i - 1] + DurationOf(events[i])
    IN  F[Len(events)]

\* the first 10 of the events, each reduced to name and rounded seconds
FirstTen(events) ==
    [i \in 1..(IF Len(events) < 10 THEN Len(events) ELSE 10) |->
        [name |-> NameOf(events[i]), seconds |-> Nearest(DurationOf(events[i]))]]

\* the payload that aggregates exactly the events at the positions in S
Aggregates(payload, events, S) ==
    /\ payload.total_seconds = Nearest(SumOfDurations(Keep(events, S)))
    /\ payload.top_apps = FirstTen(Keep(events, S))

WellFormedCall == Returned /\ ~QueryFailed

\* the positions a filter must retain (every position when no filter is
\* given), and those of events without a category list
MustRetain(events, filter) ==
    {i \in 1..Len(events) : filter = << >> \/ Matches(events[i], filter)}
WithoutList(events) == {i \in 1..Len(events) : ~HasCategoryList(events[i])}

\* C12: for every well-formed response, total_seconds is the rounded sum of
\* the durations of all retained events, listed or not, and top_apps is the
\* first 10 retained events in the order of the response, each reduced to its
\* app name and its rounded duration: never more than 10 entries, nothing
\* re-sorted, entries with the same app name not merged. The retained events
\* are all of them without a filter, and with a filter those that match it.
C12_TotalAndTopApps ==
    WellFormedCall =>
        LET events == EventsOf(http_log[1].outcome.body)
            filter == FilterOf(service_call)
        IN  /\ Len(service_response.value.top_apps) <= 10
            /\ \E others \in SUBSET (WithoutList(events) \ MustRetain(events, filter)) :
                   Aggregates(service_response.value, events,
                              MustRetain(events, filter) \cup others)

\* more than 10 events are retained, two of the listed ones share their app
\* name, and the total is not the sum of the rounded seconds listed
C12_Witness ==
    /\ WellFormedCall
    /\ FilterOf(service_call) = << >>
    /\ Len(EventsOf(http_log[1].outcome.body)) > 10
    /\ Len(service_response.value.top_apps) = 10
    /\ service_response.value.top_apps[1].name = service_response.value.top_apps[8].name
    /\ service_response.value.top_apps[1].seconds > service_response.value.top_apps[8].seconds
    /\ service_response.value.total_seconds
           > SumOfDurations([i \in 1..10 |->
                 [duration |-> 4 * service_response.value.top_apps[i].seconds]]) \div 4

\* C13: with a category filter, every event counted in total_seconds or
\* listed in top_apps has a category list with an entry equal to the filter
\* ignoring case; events whose list lacks such an entry, and events with no
\* category list, are dropped; the filter is applied before the truncation
\* to 10.
C13_FilterBeforeTruncation ==
    (WellFormedCall /\ FilterOf(service_call) # << >>) =>
        LET events == EventsOf(http_log[1].outcome.body)
        IN  Aggregates(service_response.value, events,
                       {i \in 1..Len(events) : Matches(events[i], FilterOf(service_call))})

----------------------------------------------------------------------------
(* __init__.py: setting up, unloading and reloading config entries *)

DEFAULT_SCAN_INTERVAL == 15
MIN_SCAN_INTERVAL == 5
MAX_SCAN_INTERVAL == 300

MOCK_CONFIG == [host |-> "localhost", port |-> 5600, device_name |-> "Test-PC"]
MOCK_CONFIG_WITH_KEY ==
    [host |-> "localhost", port |-> 5600, device_name |-> "Test-PC",
     api_key |-> "test-api-key"]

\* a config entry as the host creates it: not loaded, without runtime data
ConfigEntry(entry_id, entry_data, options) ==
    [entry_id |-> entry_id, data |-> entry_data, options |-> options,
     state |-> "not_loaded", runtime_data |-> NoneObj]

\* the entries of the domain whose life is followed
HostEntries ==
    << ConfigEntry(1, MOCK_CONFIG, << >>),
       ConfigEntry(2, [host |-> "192.168.1.50", port |-> 5600, device_name |-> "Laptop",
                       api_key |-> "test-api-key"], << >>) >>

\* what the server may answer during a setup
MOCK_SERVER_INFO == [hostname |-> "test-hostname", version |-> "0.12.0", testing |-> FALSE]
MOCK_BUCKETS ==
    << [id |-> "aw-watcher-window_host", info |-> [type |-> BUCKET_WINDOW, hostname |-> "host"]],
       [id |-> "aw-watcher-afk_host", info |-> [type |-> BUCKET_AFK, hostname |-> "host"]] >>

InfoResponses == {Ok(MOCK_SERVER_INFO)} \cup Errors
SetupBucketResponses == {Ok(MOCK_BUCKETS)} \cup Errors
SetupWindowResponses == {Ok(<<e>>) : e \in {w \in WindowEvents : w.id = 1}} \cup Errors
SetupAfkResponses == {Ok(<<e>>) : e \in {a \in AfkEvents : a.id = 10}} \cup Errors

\* the outcomes of the five client calls of a setup, in call order: info,
\* window listing, AFK listing, window events, AFK events. A call that raises
\* ends the setup, so the outcomes after it are left at one value.
SetupOutcomes ==
    { o \in InfoResponses \X SetupBucketResponses \X SetupBucketResponses
            \X SetupWindowResponses \X SetupAfkResponses :
        \A j, k \in 1..5 : (j < k /\ o[j].status # "ok") => o[k].status = "ok" }

GetInfoCall(outcome) == [call |-> "async_get_info", outcome |-> outcome]

\* ActivityWatchApiClient(host, port, session, api_key)
ActivityWatchApiClient(host, port, api_key) ==
    [host |-> host, port |-> port, api_key |-> api_key]

\* Variant of ActivityWatchCoordinator: the baseline starts as the empty
\* string, so the coordinator is tracking from its construction
coordinator_tracking_from_start(client, name, scan_interval) ==
    [client |-> client, device_name |-> name, update_interval |-> scan_interval,
     window_bucket |-> None, afk_bucket |-> None, _previous_window_app |-> "",
     data |-> NoneObj]

\* ActivityWatchCoordinator(hass, client, device_name, scan_interval)
ActivityWatchCoordinator(client, name, scan_interval) ==
    [client |-> client, device_name |-> name, update_interval |-> scan_interval,
     window_bucket |-> None, afk_bucket |-> None, _previous_window_app |-> None,
     data |-> NoneObj]

\* ActivityWatchCoordinator.async_setup, given the outcomes b1 and b2 the two
\* listings would have: the exception it raises if any, the coordinator it
\* leaves and the client calls it makes
async_setup(coordinator, b1, b2) ==
    IF b1.status # "ok"
    THEN [raised |-> b1.status, coordinator |-> coordinator, calls |-> <<GetBucketsCall(b1)>>]
    ELSE LET found == [coordinator EXCEPT !.window_bucket =
                          first_bucket(async_find_buckets(b1.body, BUCKET_WINDOW), @)]
         IN  IF b2.status # "ok"
             THEN [raised |-> b2.status, coordinator |-> found,
                   calls |-> <<GetBucketsCall(b1), GetBucketsCall(b2)>>]
             ELSE [raised |-> None,
                   coordinator |-> [found EXCEPT !.afk_bucket =
                       first_bucket(async_find_buckets(b2.body, BUCKET_AFK), @)],
                   calls |-> <<GetBucketsCall(b1), GetBucketsCall(b2)>>]

\* one refresh of a coordinator, given the outcomes wr and ar its two fetches
\* would have: _async_update_data and _fire_window_switch_event on the fields
\* of the coordinator. The host caches the data returned, or on UpdateFailed
\* keeps the previous one.
coordinator_refresh(coordinator, wr, ar) ==
    LET window_called == truthy(coordinator.window_bucket)
        window_raised == window_called /\ wr.status # "ok"
        afk_called == ~window_raised /\ truthy(coordinator.afk_bucket)
        afk_raised == afk_called /\ ar.status # "ok"
        fetched == ActivityWatchData(
                       IF window_called /\ ~window_raised
                       THEN first_event(wr.body) ELSE NoneObj,
                       IF afk_called /\ ~afk_raised
                       THEN first_event(ar.body) ELSE NoneObj)
        fire == _fire_window_switch_event(coordinator._previous_window_app,
                                          coordinator.device_name, fetched)
        calls == (IF window_called
                  THEN <<GetEventsCall(coordinator.window_bucket, wr)>> ELSE <<>>)
                 \o (IF afk_called
                     THEN <<GetEventsCall(coordinator.afk_bucket, ar)>> ELSE <<>>)
    IN  IF window_raised \/ afk_raised
        THEN [UpdateFailed |-> TRUE, coordinator |-> coordinator, fired |-> << >>,
              calls |-> calls]
        ELSE [UpdateFailed |-> FALSE,
              coordinator |-> [coordinator EXCEPT
                                  !.data = fetched,
                                  !._previous_window_app = fire.previous_window_app],
              fired |-> fire.fired, calls |-> calls]

\* what async_config_entry_first_refresh makes of the refresh r
first_refresh_result(r) ==
    [ raised |-> IF r.UpdateFailed THEN "ConfigEntryNotReady" ELSE None,
      coordinator |-> r.coordinator, fired |-> r.fired, calls |-> r.calls ]

\* async_config_entry_first_refresh: the first refresh of the coordinator,
\* UpdateFailed being raised to the caller as ConfigEntryNotReady
async_config_entry_first_refresh(coordinator, wr, ar) ==
    first_refresh_result(coordinator_refresh(coordinator, wr, ar))

HostCall(name, entry_id) == [call |-> name, entry_id |-> entry_id]
UnloadPlatformsCall(entry_id, outcome) ==
    [call |-> "async_unload_platforms", entry_id |-> entry_id, outcome |-> outcome]

\* async_setup_entry, given the outcomes its client calls would have: the
\* exception it raises if any, the runtime data and the services it leaves,
\* and the host and client calls it makes
async_setup_entry(entry, registered, probe, b1, b2, wr, ar) ==
    LET client == ActivityWatchApiClient(entry.data.host, entry.data.port,
                                         Get(entry.data, "api_key", None))
        scan_interval == Get(entry.options, "scan_interval", DEFAULT_SCAN_INTERVAL)
        coordinator == ActivityWatchCoordinator(client, entry.data.device_name, scan_interval)
        setup == async_setup(coordinator, b1, b2)
        refresh == async_config_entry_first_refresh(setup.coordinator, wr, ar)
        register == async_register_services(registered)
        failed(exception, client_calls) ==
            [raised |-> exception, runtime_data |-> entry.runtime_data,
             services |-> registered, fired |-> << >>, host_calls |-> << >>,
             client_calls |-> client_calls]
    IN  IF probe.status = ConnectionError.status
        THEN failed("ConfigEntryNotReady", <<GetInfoCall(probe)>>)
        ELSE IF probe.status # "ok"
        THEN failed(probe.status, <<GetInfoCall(probe)>>)
        ELSE IF setup.raised # None
        THEN failed(setup.raised, <<GetInfoCall(probe)>> \o setup.calls)
        ELSE IF refresh.raised # None
        THEN failed(refresh.raised, <<GetInfoCall(probe)>> \o setup.calls \o refresh.calls)
        ELSE [raised |-> None,
              runtime_data |-> refresh.coordinator,
              services |-> register.services,
              fired |-> refresh.fired,
              host_calls |-> <<HostCall("async_forward_entry_setups", entry.entry_id)>>
                             \o register.calls
                             \o <<HostCall("add_update_listener", entry.entry_id)>>,
              client_calls |-> <<GetInfoCall(probe)>> \o setup.calls \o refresh.calls]

\* Variant of async_unload_entry: the services are removed with any unloaded entry
unload_entry_removing_services(config_entries, entry, registered, unload_ok) ==
    LET unregister == async_unregister_services(registered)
    IN  IF unload_ok
        THEN [unload_ok |-> unload_ok, services |-> unregister.services,
              host_calls |-> <<UnloadPlatformsCall(entry.entry_id, unload_ok)>>
                             \o unregister.calls]
        ELSE [unload_ok |-> unload_ok, services |-> registered,
              host_calls |-> <<UnloadPlatformsCall(entry.entry_id, unload_ok)>>]

\* async_unload_entry, given the result the platform unload would have
async_unload_entry(config_entries, entry, registered, unload_ok) ==
    LET remaining == SelectSeq(config_entries, LAMBDA e : e.entry_id # entry.entry_id)
        unregister == async_unregister_services(registered)
    IN  IF unload_ok /\ remaining = << >>
        THEN [unload_ok |-> unload_ok, services |-> unregister.services,
              host_calls |-> <<UnloadPlatformsCall(entry.entry_id, unload_ok)>>
                             \o unregister.calls]
        ELSE [unload_ok |-> unload_ok, services |-> registered,
              host_calls |-> <<UnloadPlatformsCall(entry.entry_id, unload_ok)>>]

\* the state in which the host leaves an entry whose setup raised
StateAfterSetup(raised) ==
    IF raised = None THEN "loaded"
    ELSE IF raised = "ConfigEntryNotReady" THEN "setup_retry"
    ELSE "setup_error"

\* hass.config_entries.async_setup of entry i
host_setup(config_entries, i, registered, probe, b1, b2, wr, ar) ==
    LET s == async_setup_entry(config_entries[i], registered, probe, b1, b2, wr, ar)
    IN  [entries |-> [config_entries EXCEPT ![i].state = StateAfterSetup(s.raised),
                                            ![i].runtime_data = s.runtime_data],
         services |-> s.services, fired |-> s.fired, host_calls |-> s.host_calls,
         client_calls |-> s.client_calls]

\* hass.config_entries.async_unload of entry i: a loaded entry is unloaded by
\* async_unload_entry and loses its runtime data when that succeeds; an entry
\* waiting for a retry or in setup error is just marked not loaded
host_unload(config_entries, i, registered, unload_ok) ==
    IF config_entries[i].state = "loaded"
    THEN LET u == async_unload_entry(config_entries, config_entries[i], registered, unload_ok)
         IN  [entries |-> IF u.unload_ok
                          THEN [config_entries EXCEPT ![i].state = "not_loaded",
                                                      ![i].runtime_data = NoneObj]
                          ELSE [config_entries EXCEPT ![i].state = "failed_unload"],
              result |-> u.unload_ok, services |-> u.services, host_calls |-> u.host_calls]
    ELSE [entries |-> [config_entries EXCEPT ![i].state = "not_loaded"],
          result |-> TRUE, services |-> registered, host_calls |-> << >>]

----------------------------------------------------------------------------
(* config_flow.py: the options flow *)

Whitespace == {" ", "\t", "\n"}

\* str.split(sep): the pieces between the separators, empty pieces included
split(s, sep) ==
    LET F[i \in 0..Len(s)] ==
            IF i = 0 THEN << << >> >>
            ELSE LET pieces == F[i - 1]
                 IN  IF s[i] = sep THEN Append(pieces, << >>)
                     ELSE [pieces EXCEPT ![Len(pieces)] = Append(@, s[i])]
    IN  F[Len(s)]

\* Variant of strip: only leading whitespace is removed
lstrip(s) ==
    LET inner == {i \in 1..Len(s) : s[i] \notin Whitespace}
    IN  IF inner = {} THEN << >>
        ELSE SubSeq(s, CHOOSE i \in inner : \A j \in inner : i <= j, Len(s))

\* str.strip(): without leading and trailing whitespace
strip(s) ==
    LET inner == {i \in 1..Len(s) : s[i] \notin Whitespace}
    IN  IF inner = {} THEN << >>
        ELSE SubSeq(s, CHOOSE i \in inner : \A j \in inner : i <= j,
                       CHOOSE i \in inner : \A j \in inner : i >= j)

\* sep.join(pieces)
join(sep, pieces) ==
    LET F[i \in 0..Len(pieces)] ==
            IF i = 0 THEN << >>
            ELSE IF i = 1 THEN pieces[1]
            ELSE F[i - 1] \o sep \o pieces[i]
    IN  F[Len(pieces)]

\* Variant of options_schema: the interval is any integer
options_schema_without_range(current_options, user_input) ==
    LET scan_interval == Get(user_input, "scan_interval",
                             JNum(Get(current_options, "scan_interval", DEFAULT_SCAN_INTERVAL)))
        current_categories == Get(current_options, "monitored_categories", << >>)
        categories_str == Get(user_input, "monitored_categories",
                              join(<<",", " ">>, current_categories))
    IN  IF scan_interval.t = "number"
        THEN [valid |-> TRUE,
              data |-> [scan_interval |-> scan_interval.v,
                        monitored_categories |-> categories_str]]
        ELSE [valid |-> FALSE]

\* the data_schema of the form, which the host applies to what is submitted:
\* scan_interval an int in [MIN_SCAN_INTERVAL, MAX_SCAN_INTERVAL], a missing
\* key taking the default shown
options_schema(current_options, user_input) ==
    LET scan_interval == Get(user_input, "scan_interval",
                             JNum(Get(current_options, "scan_interval", DEFAULT_SCAN_INTERVAL)))
        current_categories == Get(current_options, "monitored_categories", << >>)
        categories_str == Get(user_input, "monitored_categories",
                              join(<<",", " ">>, current_categories))
    IN  IF /\ scan_interval.t = "number"
           /\ scan_interval.v >= MIN_SCAN_INTERVAL
           /\ scan_interval.v <= MAX_SCAN_INTERVAL
        THEN [valid |-> TRUE,
              data |-> [scan_interval |-> scan_interval.v,
                        monitored_categories |-> categories_str]]
        ELSE [valid |-> FALSE]

\* Variant of async_step_init: the pieces are trimmed on the left only
step_init_trimming_left(config_entry, user_input) ==
    IF user_input # NoneObj
    THEN LET categories_str == Get(user_input, "monitored_categories", << >>)
             pieces == split(categories_str, ",")
             categories == SelectSeq([i \in 1..Len(pieces) |-> lstrip(pieces[i])],
                                     LAMBDA c : strip(c) # << >>)
         IN  [type |-> "create_entry", title |-> "",
              data |-> [scan_interval |-> user_input.scan_interval,
                        monitored_categories |-> categories]]
    ELSE [type |-> "form", step_id |-> "init"]

\* ActivityWatchOptionsFlow.async_step_init
async_step_init(config_entry, user_input) ==
    IF user_input # NoneObj
    THEN LET categories_str == Get(user_input, "monitored_categories", << >>)
             pieces == split(categories_str, ",")
             categories == SelectSeq([i \in 1..Len(pieces) |-> strip(pieces[i])],
                                     LAMBDA c : c # << >>)
         IN  [type |-> "create_entry", title |-> "",
              data |-> [scan_interval |-> user_input.scan_interval,
                        monitored_categories |-> categories]]
    ELSE LET current_options == config_entry.options
             current_categories == Get(current_options, "monitored_categories", << >>)
         IN  [type |-> "form", step_id |-> "init",
              defaults |-> [scan_interval |->
                                Get(current_options, "scan_interval", DEFAULT_SCAN_INTERVAL),
                            monitored_categories |->
                                IF current_categories # << >>
                                THEN join(<<",", " ">>, current_categories) ELSE << >>]]

----------------------------------------------------------------------------
(* The host running setups, unloads, reloads and option edits of the entries *)

WorkGamingBrowsing ==
    <<"W","o","r","k",","," ","G","a","m","i","n","g",","," ",
      "B","r","o","w","s","i","n","g">>

\* what may be submitted to the options form; None asks for the form
HostOptionInputs ==
    {NoneObj}
    \cup { [scan_interval |-> x, monitored_categories |-> WorkGamingBrowsing] :
             x \in {JNum(4), JNum(5), JNum(300), JNum(301), JStr("30")} }

InitHost ==
    /\ pc = "ready"
    /\ device_name = HostEntries[1].data.device_name
    /\ window_bucket = None
    /\ afk_bucket = None
    /\ previous_window_app = None
    /\ data = ActivityWatchData(NoneObj, NoneObj)
    /\ last_update_success = TRUE
    /\ bus = << >>
    /\ http_log = << >>
    /\ ticks = 0
    /\ polled = FALSE
    /\ afk_ever_cached = FALSE
    /\ entries \in {SubSeq(HostEntries, 1, n) : n \in 1..Len(HostEntries)}
    /\ service_call = NoneObj
    /\ service_response = NoneObj
    /\ services = << >>
    /\ host_log = << >>
    /\ flow_input = NoneObj
    /\ flow_result = NoneObj
    /\ server_window = << >>
    /\ client_result = NoneObj

\* the host sets up an entry that is not loaded, or retries one that was not ready
setup_entry ==
    \E i \in 1..Len(entries) :
        /\ entries[i].state \in {"not_loaded", "setup_retry"}
        /\ \E o \in SetupOutcomes :
            LET s == host_setup(entries, i, services, o[1], o[2], o[3], o[4], o[5])
            IN  /\ entries' = s.entries
                /\ services' = s.services
                /\ bus' = bus \o s.fired
                /\ host_log' = s.host_calls
                /\ http_log' = s.client_calls
        /\ flow_input' = NoneObj
        /\ flow_result' = NoneObj
        /\ UNCHANGED <<pc, device_name, window_bucket, afk_bucket, previous_window_app,
                       data, last_update_success, ticks, polled, afk_ever_cached,
                       service_call, service_response, api_vars>>

\* the host unloads an entry
unload_entry ==
    \E i \in 1..Len(entries), unload_ok \in BOOLEAN :
        /\ entries[i].state \in {"loaded", "setup_retry", "setup_error"}
        /\ LET u == host_unload(entries, i, services, unload_ok)
           IN  /\ entries' = u.entries
               /\ services' = u.services
               /\ host_log' = u.host_calls
               /\ http_log' = << >>
        /\ flow_input' = NoneObj
        /\ flow_result' = NoneObj
        /\ UNCHANGED <<coordinator_vars, service_call, service_response, api_vars>>

\* _async_options_updated, or a reload asked of the host: async_reload unloads
\* the entry and, when that succeeded, sets it up
reload_entry ==
    \E i \in 1..Len(entries), unload_ok \in BOOLEAN :
        /\ entries[i].state \in {"loaded", "setup_retry", "setup_error"}
        /\ \E o \in SetupOutcomes :
            LET u == host_unload(entries, i, services, unload_ok)
                s == host_setup(u.entries, i, u.services, o[1], o[2], o[3], o[4], o[5])
            IN  IF u.result
                THEN /\ entries' = s.entries
                     /\ services' = s.services
                     /\ bus' = bus \o s.fired
                     /\ host_log' = u.host_calls \o s.host_calls
                     /\ http_log' = s.client_calls
                ELSE /\ entries' = u.entries
                     /\ services' = u.services
                     /\ bus' = bus
                     /\ host_log' = u.host_calls
                     /\ http_log' = << >>
        /\ flow_input' = NoneObj
        /\ flow_result' = NoneObj
        /\ UNCHANGED <<pc, device_name, window_bucket, afk_bucket, previous_window_app,
                       data, last_update_success, ticks, polled, afk_ever_cached,
                       service_call, service_response, api_vars>>

\* one step of the options flow of an entry: the host applies the schema of
\* the form to what is submitted, runs async_step_init, and stores the data
\* of a create_entry result as the options of the entry
options_flow(inputs) ==
    \E i \in 1..Len(entries), user_input \in inputs :
        /\ flow_input' = user_input
        /\ IF user_input = NoneObj
           THEN /\ flow_result' = async_step_init(entries[i], NoneObj)
                /\ UNCHANGED entries
           ELSE LET validated == options_schema(entries[i].options, user_input)
                IN  IF validated.valid
                    THEN /\ flow_result' = async_step_init(entries[i], validated.data)
                         /\ entries' = [entries EXCEPT ![i].options = flow_result'.data]
                    ELSE /\ flow_result' = [type |-> "invalid_data"]
                         /\ UNCHANGED entries
        /\ host_log' = << >>
        /\ http_log' = << >>
        /\ UNCHANGED <<coordinator_vars, service_call, service_response, services, api_vars>>

NextHost ==
    \/ setup_entry
    \/ unload_entry
    \/ reload_entry
    \/ options_flow(HostOptionInputs)

SpecHost == InitHost /\ [][NextHost]_vars

----------------------------------------------------------------------------
(* Properties of the life of the entries, checked under SpecHost *)

Registered(registry) == "query_stats" \in DOMAIN registry

\* an instance is loaded from the end of a successful setup until its unload
\* has succeeded
IsLoaded(entry) == entry.state \in {"loaded", "failed_unload"}

\* C14: after any sequence of setups (successful or failed), unloads and
\* reloads over several config entries, the query_stats service is registered
\* exactly when at least one instance is currently loaded.
C14_ServiceIffLoaded ==
    Registered(services) <=> \E i \in 1..Len(entries) : IsLoaded(entries[i])

\* whether the service is registered just before call k of a log, given the
\* registry the operation started with
RegisteredBefore(registry, log, k) ==
    LET changes == {j \in 1..(k - 1) : log[j].call \in {"async_register", "async_remove"}}
    IN  IF changes = {} THEN Registered(registry)
        ELSE log[CHOOSE j \in changes : \A m \in changes : m <= j].call = "async_register"

\* C15: a setup that finds the service registered registers nothing and
\* leaves the registration as it is; an unload removes the service only when
\* its platform unload succeeded and no other instance is still loaded.
C15_DedupAndGuard ==
    [][ /\ \A k \in 1..Len(host_log') :
               host_log'[k].call = "async_register"
                   => ~RegisteredBefore(services, host_log', k)
        /\ (\A k \in 1..Len(host_log') :
                host_log'[k].call \notin {"async_register", "async_remove"})
               => services' = services
        /\ \A k \in 1..Len(host_log') :
               host_log'[k].call = "async_remove"
                   => \E j \in 1..(k - 1) :
                         /\ host_log'[j].call = "async_unload_platforms"
                         /\ host_log'[j].outcome
                         /\ \A i \in 1..Len(entries) :
                                entries[i].entry_id # host_log'[j].entry_id
                                    => ~IsLoaded(entries[i])
      ]_vars

\* the second entry was set up while the service was registered, and the
\* first has been unloaded since, the second staying loaded
C15_Witness ==
    /\ Len(entries) = 2
    /\ entries[1].state = "not_loaded"
    /\ entries[2].state = "loaded"
    /\ host_log = <<UnloadPlatformsCall(1, TRUE)>>
    /\ Registered(services)

\* C16: a connection error raised during the initial setup of an instance, by
\* the connectivity probe, by bucket discovery or by the first refresh, leaves
\* the instance not loaded (no runtime data, no platforms, no service
\* registered by it) and in the setup-retry state.
C16_ConnectionErrorRetries ==
    [][ (/\ http_log' # << >>
         /\ http_log'[Len(http_log')].outcome = ConnectionError)
            => /\ \A i \in 1..Len(entries) :
                      entries'[i] # entries[i]
                          => /\ entries'[i].state = "setup_retry"
                             /\ entries'[i].runtime_data = NoneObj
               /\ \A k \in 1..Len(host_log') :
                      host_log'[k].call \notin {"async_forward_entry_setups",
                                                "async_register"}
      ]_vars

\* C20: the poll interval of every coordinator is within [5, 300] seconds,
\* and it is 15 for an instance set up with no stored interval, after any
\* sequence of option edits and reloads.
C20_IntervalInRange ==
    \A i \in 1..Len(entries) :
        entries[i].runtime_data # NoneObj
            => /\ entries[i].runtime_data.update_interval >= 5
               /\ entries[i].runtime_data.update_interval <= 300
               /\ "scan_interval" \notin DOMAIN entries[i].options
                      => entries[i].runtime_data.update_interval = 15

\* one instance polls every 300 s, the interval an edit stored, the other has
\* no stored interval, and an interval of 301 has just been refused
C20_Witness ==
    /\ Len(entries) = 2
    /\ entries[1].state = "loaded"
    /\ entries[1].runtime_data.update_interval = 300
    /\ entries[2].state = "loaded"
    /\ entries[2].options = << >>
    /\ entries[2].runtime_data.update_interval = 15
    /\ flow_result = [type |-> "invalid_data"]

----------------------------------------------------------------------------
(* config_flow.py: the user step of the config flow *)

\* what may be submitted to the user form: three inputs share host and port
UserInputs ==
    { MOCK_CONFIG, MOCK_CONFIG_WITH_KEY,
      [host |-> "localhost", port |-> 5600, device_name |-> "Laptop",
       api_key |-> "test-api-key"],
      [host |-> "localhost", port |-> 5601, device_name |-> "Laptop"],
      [host |-> "192.168.1.50", port |-> 5600, device_name |-> "Test-PC"] }

\* what the connectivity validation may return or raise
RuntimeError == [status |-> "RuntimeError"]
ValidationOutcomes == InfoResponses \cup {RuntimeError}

\* _async_abort_entries_match: some entry holds every item of match_dict
entries_match(config_entries, match_dict) ==
    \E i \in 1..Len(config_entries) :
        \A key \in DOMAIN match_dict :
            /\ key \in DOMAIN config_entries[i].data
            /\ config_entries[i].data[key] = match_dict[key]

\* Variant of async_step_user: every exception is reported as cannot_connect
step_user_one_error(config_entries, user_input, probe) ==
    IF user_input = NoneObj
    THEN [result |-> [type |-> "form", step_id |-> "user", errors |-> << >>],
          client_calls |-> << >>]
    ELSE IF entries_match(config_entries, [host |-> user_input.host, port |-> user_input.port])
    THEN [result |-> [type |-> "abort", reason |-> "already_configured"],
          client_calls |-> << >>]
    ELSE IF probe.status # "ok"
    THEN [result |-> [type |-> "form", step_id |-> "user",
                      errors |-> [base |-> "cannot_connect"]],
          client_calls |-> <<GetInfoCall(probe)>>]
    ELSE [result |-> [type |-> "create_entry", title |-> user_input.device_name,
                      data |-> user_input],
          client_calls |-> <<GetInfoCall(probe)>>]

\* Variant of async_step_user: the connection is validated before the
\* entries are matched
step_user_validating_first(config_entries, user_input, probe) ==
    IF user_input = NoneObj
    THEN [result |-> [type |-> "form", step_id |-> "user", errors |-> << >>],
          client_calls |-> << >>]
    ELSE IF probe.status = ConnectionError.status
    THEN [result |-> [type |-> "form", step_id |-> "user",
                      errors |-> [base |-> "cannot_connect"]],
          client_calls |-> <<GetInfoCall(probe)>>]
    ELSE IF probe.status # "ok"
    THEN [result |-> [type |-> "form", step_id |-> "user",
                      errors |-> [base |-> "unknown"]],
          client_calls |-> <<GetInfoCall(probe)>>]
    ELSE IF entries_match(config_entries, [host |-> user_input.host, port |-> user_input.port])
    THEN [result |-> [type |-> "abort", reason |-> "already_configured"],
          client_calls |-> <<GetInfoCall(probe)>>]
    ELSE [result |-> [type |-> "create_entry", title |-> user_input.device_name,
                      data |-> user_input],
          client_calls |-> <<GetInfoCall(probe)>>]

\* ActivityWatchConfigFlow.async_step_user, given the outcome the
\* connectivity validation would have: the flow result and the client calls
async_step_user(config_entries, user_input, probe) ==
    IF user_input = NoneObj
    THEN [result |-> [type |-> "form", step_id |-> "user", errors |-> << >>],
          client_calls |-> << >>]
    ELSE IF entries_match(config_entries, [host |-> user_input.host, port |-> user_input.port])
    THEN [result |-> [type |-> "abort", reason |-> "already_configured"],
          client_calls |-> << >>]
    ELSE IF probe.status = ConnectionError.status
    THEN [result |-> [type |-> "form", step_id |-> "user",
                      errors |-> [base |-> "cannot_connect"]],
          client_calls |-> <<GetInfoCall(probe)>>]
    ELSE IF probe.status # "ok"
    THEN [result |-> [type |-> "form", step_id |-> "user",
                      errors |-> [base |-> "unknown"]],
          client_calls |-> <<GetInfoCall(probe)>>]
    ELSE [result |-> [type |-> "create_entry", title |-> user_input.device_name,
                      data |-> user_input],
          client_calls |-> <<GetInfoCall(probe)>>]

InitFlow ==
    /\ pc = "ready"
    /\ device_name = MOCK_CONFIG.device_name
    /\ window_bucket = None
    /\ afk_bucket = None
    /\ previous_window_app = None
    /\ data = ActivityWatchData(NoneObj, NoneObj)
    /\ last_update_success = TRUE
    /\ bus = << >>
    /\ http_log = << >>
    /\ ticks = 0
    /\ polled = FALSE
    /\ afk_ever_cached = FALSE
    /\ entries = << >>
    /\ service_call = NoneObj
    /\ service_response = NoneObj
    /\ services = << >>
    /\ host_log = << >>
    /\ flow_input = NoneObj
    /\ flow_result = NoneObj
    /\ server_window = << >>
    /\ client_result = NoneObj

\* one step of a user config flow: None asks for the form; the host makes a
\* config entry of a create_entry result
user_flow ==
    /\ Len(entries) <= MaxEntries
    /\ \E user_input \in UserInputs \cup {NoneObj}, probe \in ValidationOutcomes :
        LET step == async_step_user(entries, user_input, probe)
        IN  /\ flow_input' = user_input
            /\ flow_result' = step.result
            /\ http_log' = step.client_calls
            /\ entries' = IF step.result.type = "create_entry"
                           THEN Append(entries, ConfigEntry(Len(entries) + 1,
                                                            step.result.data, << >>))
                           ELSE entries
    /\ host_log' = << >>
    /\ UNCHANGED <<coordinator_vars, service_call, service_response, services, api_vars>>

NextFlow == user_flow

SpecFlow == InitFlow /\ [][NextFlow]_vars

----------------------------------------------------------------------------
(* The options form, submitted once with any text of categories *)

MaxCategoryChars == 5    \* characters of a submitted category text

CategoryChars == {"a", "B", ",", " ", "\t"}

OptionInputs ==
    {NoneObj}
    \cup { [scan_interval |-> JNum(n), monitored_categories |-> c] :
             n \in {5, 30},
             c \in SeqUpTo(CategoryChars, MaxCategoryChars) \cup {WorkGamingBrowsing} }

InitOptions ==
    /\ pc = "ready"
    /\ device_name = MOCK_CONFIG.device_name
    /\ window_bucket = None
    /\ afk_bucket = None
    /\ previous_window_app = None
    /\ data = ActivityWatchData(NoneObj, NoneObj)
    /\ last_update_success = TRUE
    /\ bus = << >>
    /\ http_log = << >>
    /\ ticks = 0
    /\ polled = FALSE
    /\ afk_ever_cached = FALSE
    /\ entries = << ConfigEntry(1, MOCK_CONFIG, << >>) >>
    /\ service_call = NoneObj
    /\ service_response = NoneObj
    /\ services = << >>
    /\ host_log = << >>
    /\ flow_input = NoneObj
    /\ flow_result = NoneObj
    /\ server_window = << >>
    /\ client_result = NoneObj

\* what is submitted is not read from the options stored before, so one
\* submission is followed
NextOptions == flow_result = NoneObj /\ options_flow(OptionInputs)

SpecOptions == InitOptions /\ [][NextOptions]_vars

----------------------------------------------------------------------------
(* Properties of the config flow, checked under SpecFlow *)

ErrorForm(base) == [type |-> "form", step_id |-> "user", errors |-> [base |-> base]]

\* C17: in the user config flow a connection error of the connectivity
\* validation shows the form again with base error cannot_connect, any other
\* exception shows it with base error unknown, and in both cases no entry is
\* created; only a successful validation creates an entry, titled with the
\* device name and storing the submitted data unchanged.
C17_ValidationOutcome ==
    [][ /\ (flow_input' # NoneObj /\ http_log' # << >>) =>
             LET outcome == http_log'[1].outcome
             IN  IF outcome = ConnectionError
                 THEN flow_result' = ErrorForm("cannot_connect") /\ entries' = entries
                 ELSE IF outcome.status # "ok"
                 THEN flow_result' = ErrorForm("unknown") /\ entries' = entries
                 ELSE /\ flow_result'.type = "create_entry"
                      /\ flow_result'.title = flow_input'.device_name
                      /\ flow_result'.data = flow_input'
                      /\ Len(entries') = Len(entries) + 1
                      /\ SubSeq(entries', 1, Len(entries)) = entries
                      /\ entries'[Len(entries')].data = flow_input'
        /\ entries' # entries =>
               /\ http_log' # << >>
               /\ http_log'[1].outcome.status = "ok"
      ]_vars

\* with one entry created before, an exception that is no connection error
\* has shown the form with base error unknown and has created nothing
C17_Witness ==
    /\ Len(entries) = 1
    /\ entries[1].data = MOCK_CONFIG_WITH_KEY
    /\ flow_input # NoneObj
    /\ http_log = <<GetInfoCall(RuntimeError)>>
    /\ flow_result = ErrorForm("unknown")

SameHostAndPort(a, b) == a.host = b.host /\ a.port = b.port

\* C18: a user config flow that submits the host and port of an existing
\* entry aborts with reason already_configured before any connection is
\* attempted and without creating an entry; hence no two entries ever share
\* the same host and port.
C18_NoDuplicateEntry ==
    /\ [][ (/\ flow_input' # NoneObj
             /\ \E i \in 1..Len(entries) : SameHostAndPort(entries[i].data, flow_input'))
                => /\ flow_result' = [type |-> "abort", reason |-> "already_configured"]
                   /\ http_log' = << >>
                   /\ entries' = entries
          ]_vars
    /\ [](\A i, j \in 1..Len(entries) :
              SameHostAndPort(entries[i].data, entries[j].data) => i = j)

\* a flow submitting the host and port of the first entry under another
\* device name has been aborted, a second entry existing beside it
C18_Witness ==
    /\ Len(entries) = 2
    /\ flow_input # NoneObj
    /\ SameHostAndPort(flow_input, entries[1].data)
    /\ flow_input.device_name # entries[1].data.device_name
    /\ flow_result = [type |-> "abort", reason |-> "already_configured"]
    /\ http_log = << >>

----------------------------------------------------------------------------
(* Properties of the options form, checked under SpecOptions *)

\* a text without its leading and trailing whitespace
RECURSIVE Trimmed(_)
Trimmed(text) ==
    IF text = << >> THEN text
    ELSE IF Head(text) \in {" ", "\t", "\n"} THEN Trimmed(Tail(text))
    ELSE IF text[Len(text)] \in {" ", "\t", "\n"}
         THEN Trimmed(SubSeq(text, 1, Len(text) - 1))
    ELSE text

\* the non-empty trimmed pieces of text[from..] between commas, in order
RECURSIVE Pieces(_, _)
Pieces(text, from) ==
    IF from > Len(text) + 1 THEN << >>
    ELSE LET commas == {k \in from..Len(text) : text[k] = ","}
             to == IF commas = {} THEN Len(text) + 1
                   ELSE CHOOSE k \in commas : \A m \in commas : k <= m
             piece == Trimmed(SubSeq(text, from, to - 1))
         IN  (IF piece = << >> THEN << >> ELSE <<piece>>) \o Pieces(text, to + 1)

\* C19: the options flow stores the monitored categories as the list got by
\* splitting the submitted text at commas, trimming whitespace from each
\* piece and dropping empty pieces, in the submitted order, together with the
\* submitted scan interval unchanged.
C19_CategoriesParsed ==
    (flow_input # NoneObj /\ flow_result # NoneObj) =>
        /\ flow_result.type = "create_entry"
        /\ flow_result.data.monitored_categories
               = Pieces(flow_input.monitored_categories, 1)
        /\ flow_result.data.scan_interval = flow_input.scan_interval.v
        /\ entries[1].options = flow_result.data

\* "Work, Gaming, Browsing" with an interval of 30 is stored as the three names
C19_Witness ==
    /\ flow_input # NoneObj
    /\ flow_input.monitored_categories = WorkGamingBrowsing
    /\ entries[1].options =
           [scan_interval |-> 30,
            monitored_categories |-> << <<"W","o","r","k">>,
                                        <<"G","a","m","i","n","g">>,
                                        <<"B","r","o","w","s","i","n","g">> >>]

----------------------------------------------------------------------------
(* api.py: the requests of the client over the HTTP session *)

\* the exception classes of aiohttp that derive from aiohttp.ClientError:
\* ClientConnectorError (connection refused), ClientConnectorDNSError (name
\* not resolved), ServerDisconnectedError, ServerTimeoutError (a socket
\* timeout) and ContentTypeError (raised by resp.json())
ClientError ==
    {"ClientConnectorError", "ClientConnectorDNSError", "ServerDisconnectedError",
     "ServerTimeoutError", "ContentTypeError"}

\* what the session may raise instead of giving a response. The total timeout
\* of a request ends it with asyncio.TimeoutError, which is no ClientError.
TransportFailures == (ClientError \ {"ContentTypeError"}) \cup {"TimeoutError"}

\* bodies a server may send, with the value json.loads gives for each, NotJson
\* when it raises JSONDecodeError
NotJson == [t |-> "invalid"]
ResponseBodies ==
    { [text |-> "{\"hostname\": \"test-hostname\"}",
       json |-> JObj([hostname |-> "test-hostname"])],
      [text |-> "[]", json |-> JList(<< >>)],
      [text |-> "Unauthorized", json |-> NotJson] }

\* what the session does with one request: it gives a response, or raises
TransportOutcomes ==
    { [kind |-> "response", status |-> status, content_type |-> content_type, body |-> body] :
        status \in {200, 201, 204, 401, 404, 500},
        content_type \in {"application/json", "text/html"},
        body \in ResponseBodies }
    \cup { [kind |-> "raise", exception |-> e] : e \in TransportFailures }

\* the clients of the two configurations, and one with an empty key
ApiClients ==
    { ActivityWatchApiClient(c.host, c.port, Get(c, "api_key", None)) :
        c \in {MOCK_CONFIG, MOCK_CONFIG_WITH_KEY} }
    \cup { ActivityWatchApiClient("localhost", 5600, "") }

\* ActivityWatchApiClient._headers
_headers(client) ==
    IF truthy(client.api_key)
    THEN [Accept |-> "application/json", Authorization |-> <<"Bearer ", client.api_key>>]
    ELSE [Accept |-> "application/json"]

\* an exception of the client with the arguments of its message
ActivityWatchApiError(status, path, text) ==
    [class |-> "ActivityWatchApiError", status |-> status, path |-> path, text |-> text]
ActivityWatchApiConnectionError(client, err) ==
    [class |-> "ActivityWatchApiConnectionError",
     base_url |-> <<"http://", client.host, ":", client.port>>, err |-> err]
Propagated(err) == [class |-> err]

\* resp.json(): the content type is checked, then the body is parsed
resp_json(resp) ==
    IF resp.content_type # "application/json" THEN Raise("ContentTypeError")
    ELSE IF resp.body.json = NotJson THEN Raise("JSONDecodeError")
    ELSE Return(resp.body.json)

\* the body of _get and _post, given the statuses accepted and the outcome
\* the session would have: the request sent and what the call returns or raises
request(client, method, accepted, path, payload, outcome) ==
    LET sent == [method |-> method,
                 url |-> <<"http://", client.host, ":", client.port, "/api/0", path>>,
                 headers |-> _headers(client), payload |-> payload, outcome |-> outcome]
        raised(err) == IF err \in ClientError
                       THEN Raise(ActivityWatchApiConnectionError(client, err))
                       ELSE Raise(Propagated(err))
    IN  [ sent |-> sent,
          result |->
            IF outcome.kind = "raise" THEN raised(outcome.exception)
            ELSE IF outcome.status \notin accepted
            THEN Raise(ActivityWatchApiError(outcome.status, path, outcome.body.text))
            ELSE LET parsed == resp_json(outcome)
                 IN  IF parsed.kind = "raise" THEN raised(parsed.exception) ELSE parsed ]

\* ActivityWatchApiClient._get
_get(client, path, params, outcome) ==
    request(client, "GET", {200}, path, [params |-> params], outcome)

\* ActivityWatchApiClient._post
_post(client, path, json_data, outcome) ==
    request(client, "POST", {200, 201}, path, [json |-> json_data], outcome)

\* the operations of the client
async_get_info(client, outcome) == _get(client, <<"/info">>, NoneObj, outcome)
async_get_buckets(client, outcome) == _get(client, <<"/buckets/">>, NoneObj, outcome)
async_get_events(client, bucket_id, n, outcome) ==
    _get(client, <<"/buckets/", bucket_id, "/events">>, [limit |-> ToString(n)], outcome)
async_query(client, query, timeperiods, outcome) ==
    _post(client, <<"/query/">>, [query |-> query, timeperiods |-> timeperiods], outcome)
async_validate_connection(client, outcome) ==
    LET r == async_get_info(client, outcome)
    IN  IF r.result.kind = "return" THEN [r EXCEPT !.result = Return(TRUE)] ELSE r

\* one call of an operation, given the outcome the session would have
ClientCall(client, operation, outcome) ==
    CASE operation = "async_get_info" -> async_get_info(client, outcome)
      [] operation = "async_get_buckets" -> async_get_buckets(client, outcome)
      [] operation = "async_get_events" ->
            async_get_events(client, "aw-watcher-window_host", limit, outcome)
      [] operation = "async_query" ->
            async_query(client, <<"RETURN = 1;">>,
                        <<"2024-01-15T00:00:00+00:00/2024-01-15T10:30:00+00:00">>, outcome)
      [] operation = "async_validate_connection" ->
            async_validate_connection(client, outcome)

InitClient ==
    /\ pc = "ready"
    /\ device_name = MOCK_CONFIG.device_name
    /\ window_bucket = None
    /\ afk_bucket = None
    /\ previous_window_app = None
    /\ data = NoneObj
    /\ last_update_success = TRUE
    /\ bus = << >>
    /\ http_log = << >>
    /\ ticks = 0
    /\ polled = FALSE
    /\ afk_ever_cached = FALSE
    /\ entries = << >>
    /\ service_call = NoneObj
    /\ service_response = NoneObj
    /\ services = << >>
    /\ host_log = << >>
    /\ flow_input = NoneObj
    /\ flow_result = NoneObj
    /\ server_window = << >>
    /\ client_result = NoneObj

\* one request of a client
client_call ==
    /\ \E client \in ApiClients, outcome \in TransportOutcomes,
          operation \in {"async_get_info", "async_get_buckets", "async_get_events",
                         "async_query", "async_validate_connection"} :
        LET c == ClientCall(client, operation, outcome)
        IN  /\ http_log' = <<c.sent>>
            /\ client_result' = c.result
    /\ UNCHANGED <<coordinator_vars, service_vars, host_vars, server_window>>

SpecClient == InitClient /\ [][client_call]_vars

----------------------------------------------------------------------------
(* Properties of the client, checked under SpecClient *)

\* the latest request got a response with a status outside 200..299
ServerSaidNo ==
    /\ client_result # NoneObj
    /\ http_log[1].outcome.kind = "response"
    /\ http_log[1].outcome.status \notin 200..299

\* the latest request failed in the transport
ServerUnreachable ==
    /\ client_result # NoneObj
    /\ http_log[1].outcome.kind = "raise"

\* C21: a request answered with a non-2xx status raises the generic API error
\* (not the connection error) carrying status and body, and a request that
\* failed in the transport (name resolution, refusal, timeout) raises the
\* connection error and nothing else.
C21_ErrorTaxonomy ==
    /\ ServerSaidNo =>
         /\ client_result.kind = "raise"
         /\ client_result.exception.class = "ActivityWatchApiError"
         /\ client_result.exception.status = http_log[1].outcome.status
         /\ client_result.exception.text = http_log[1].outcome.body.text
    /\ ServerUnreachable =>
         /\ client_result.kind = "raise"
         /\ client_result.exception.class = "ActivityWatchApiConnectionError"

----------------------------------------------------------------------------
(* Further properties of the coordinator, checked under Spec *)

\* a step that is a refresh, successful or not
Tick == ticks' = ticks + 1

\* the fetch of a refresh from the window bucket and from the AFK bucket, as
\* logged: the window fetch is the first call when a window bucket is held,
\* the AFK fetch the call after it
WindowFetch(log) ==
    IF truthy(window_bucket) /\ Len(log) >= 1 THEN <<log[1]>> ELSE << >>
AfkFetch(log) ==
    LET at == IF truthy(window_bucket) THEN 2 ELSE 1
    IN  IF truthy(afk_bucket) /\ Len(log) >= at THEN <<log[at]>> ELSE << >>

\* the first event a logged fetch returned, None when there is no fetch or
\* the list is empty
Fetched(fetch) ==
    IF fetch # << >> /\ fetch[1].outcome.status = "ok" /\ fetch[1].outcome.body # << >>
    THEN fetch[1].outcome.body[1] ELSE NoneObj

Raised(fetch) == fetch # << >> /\ fetch[1].outcome.status # "ok"

\* C23: a refresh of a coordinator that holds no window bucket makes no window
\* fetch, succeeds whenever its AFK fetch does, caches None as window half and
\* the fetched AFK event, and emits nothing; likewise, with no AFK bucket the
\* AFK half is None and the window half is fetched and cached; and a
\* coordinator without window bucket never emits a notification.
C23_MissingBucketSkipped ==
    /\ [][ Tick =>
             /\ ~truthy(window_bucket) =>
                  /\ \A i \in 1..Len(http_log') : http_log'[i].bucket_id = afk_bucket
                  /\ Len(http_log') = IF truthy(afk_bucket) THEN 1 ELSE 0
                  /\ last_update_success' = ~Raised(AfkFetch(http_log'))
                  /\ last_update_success' =>
                       data' = ActivityWatchData(NoneObj, Fetched(AfkFetch(http_log')))
                  /\ bus' = bus
             /\ ~truthy(afk_bucket) =>
                  /\ \A i \in 1..Len(http_log') : http_log'[i].bucket_id = window_bucket
                  /\ Len(http_log') = IF truthy(window_bucket) THEN 1 ELSE 0
                  /\ last_update_success' = ~Raised(WindowFetch(http_log'))
                  /\ last_update_success' =>
                       data' = ActivityWatchData(Fetched(WindowFetch(http_log')), NoneObj) ]_vars
    /\ []( (pc \in {"first_refresh", "ready"} /\ ~truthy(window_bucket)) => bus = << >> )

\* C23 witness: no window bucket was discovered, and the second refresh
\* succeeded with the AFK event cached and the window half None.
C23_Witness ==
    /\ ticks >= 2
    /\ pc = "ready"
    /\ ~truthy(window_bucket)
    /\ truthy(afk_bucket)
    /\ last_update_success
    /\ data.window_event = NoneObj
    /\ data.afk_event # NoneObj
    /\ Len(http_log) = 1

\* C24: after a successful refresh each half of the snapshot is the first
\* event of the list this refresh fetched for it, None when that list was
\* empty or the bucket is missing, whatever the snapshot held before.
C24_SnapshotReplaced ==
    [][ SuccessfulTick =>
          data' = ActivityWatchData(Fetched(WindowFetch(http_log')),
                                    Fetched(AfkFetch(http_log'))) ]_vars

\* C24 witness: both buckets are held, earlier refreshes cached a window
\* event and an AFK event, and the latest refresh fetched two empty lists:
\* both halves are None.
C24_Witness ==
    /\ ticks >= 2
    /\ last_update_success
    /\ truthy(window_bucket)
    /\ truthy(afk_bucket)
    /\ polled
    /\ afk_ever_cached
    /\ Len(http_log) = 2
    /\ data = ActivityWatchData(NoneObj, NoneObj)

\* C25: after a successful refresh that fetched a window event the baseline is
\* that event's app (None without app field), and a refresh emits at most one
\* notification, and only when it changes the baseline.
C25_BaselineFollowsApp ==
    [][ Tick =>
          /\ WindowTick => previous_window_app' = AppOf(data'.window_event)
          /\ \/ bus' = bus
             \/ /\ Len(bus') = Len(bus) + 1
                /\ SubSeq(bus', 1, Len(bus)) = bus
                /\ previous_window_app' # previous_window_app ]_vars

\* C25 witness: the first refresh recorded an app, the second emitted the
\* switch to Code and the third fetched event 3, Code again, silently; the
\* baseline is Code.
C25_Witness ==
    /\ ticks = 3
    /\ last_update_success
    /\ data.window_event # NoneObj
    /\ data.window_event.id = 3
    /\ Len(bus) = 1
    /\ bus[1].app = "Code"
    /\ previous_window_app = "Code"

\* the latest refresh failed in its AFK fetch after its window fetch had
\* returned an event whose app differs from the recorded baseline
SwitchPending ==
    /\ pc = "ready"
    /\ polled
    /\ ~last_update_success
    /\ Len(http_log) = 2
    /\ Fetched(<<http_log[1]>>) # NoneObj
    /\ AppOf(Fetched(<<http_log[1]>>)) # previous_window_app
    /\ Raised(<<http_log[2]>>)

\* C26: in a refresh the window fetch comes first and the AFK fetch is made
\* only if the window fetch did not fail; a refresh whose AFK fetch fails
\* after the window fetch returned a new app emits nothing and keeps the
\* baseline; and the next successful refresh that still sees that app emits
\* the notification, once.
C26_FailedTickDelaysSwitch ==
    [][ Tick =>
          /\ (truthy(window_bucket) /\ truthy(afk_bucket)) =>
               /\ Len(http_log') >= 1
               /\ http_log'[1].bucket_id = window_bucket
               /\ IF Raised(<<http_log'[1]>>)
                  THEN Len(http_log') = 1
                  ELSE Len(http_log') = 2 /\ http_log'[2].bucket_id = afk_bucket
          /\ SwitchPending' =>
               /\ bus' = bus
               /\ previous_window_app' = previous_window_app
          /\ ( /\ SwitchPending
               /\ WindowTick
               /\ AppOf(data'.window_event) = AppOf(Fetched(<<http_log[1]>>)) ) =>
               /\ bus' = bus \o <<SwitchTo(data'.window_event)>>
               /\ previous_window_app' = AppOf(data'.window_event) ]_vars

\* C27: a successful refresh that fetches an empty window list emits nothing
\* and keeps the baseline; after a first refresh that recorded app A and a
\* second that fetched an empty list, a third refresh emits nothing when it
\* fetches A again and exactly one notification when it fetches another app.
C27_EmptyTickKeepsBaseline ==
    [][ Tick =>
          /\ ( /\ SuccessfulTick
               /\ truthy(window_bucket)
               /\ data'.window_event = NoneObj ) =>
               /\ bus' = bus
               /\ previous_window_app' = previous_window_app
          /\ ( /\ ticks = 2
               /\ pc = "ready"
               /\ polled
               /\ last_update_success
               /\ data.window_event = NoneObj
               /\ WindowTick ) =>
               /\ bus = << >>
               /\ bus' = IF AppOf(data'.window_event) = previous_window_app
                         THEN << >>
                         ELSE <<SwitchTo(data'.window_event)>> ]_vars

----------------------------------------------------------------------------
(* Polling and query_stats calls interleaved on loaded entries *)

\* what the server answers to the fetches and to the queries of this part
PollWindowResponses == {Ok(<<e>>) : e \in {w \in WindowEvents : w.id \in {1, 2}}}
                       \cup {Ok(<< >>), ApiError}
PollAfkResponses == {Ok(<<e>>) : e \in {a \in AfkEvents : a.id = 10}} \cup {ConnectionError}
PollQueryResponses ==
    {Ok(JList(<<JList(<<JObj(e)>>)>>)) : e \in {w \in WindowEvents : w.id = 1}}
    \cup {ConnectionError}
PollServiceCalls == { [device_id |-> d] : d \in DeviceNames \cup {"Unknown-PC"} }

\* a loaded entry: its coordinator has discovered the buckets of MOCK_BUCKETS
\* and made its first refresh
LoadedEntry(i, name, wr, ar) ==
    LET found == async_setup(ActivityWatchCoordinator(i, name, DEFAULT_SCAN_INTERVAL),
                             Ok(MOCK_BUCKETS), Ok(MOCK_BUCKETS)).coordinator
    IN  [entry_id |-> i, data |-> [device_name |-> name],
         runtime_data |-> async_config_entry_first_refresh(found, wr, ar).coordinator]

InitConcurrent ==
    /\ pc = "ready"
    /\ device_name = "Test-PC"
    /\ window_bucket = None
    /\ afk_bucket = None
    /\ previous_window_app = None
    /\ data = NoneObj
    /\ last_update_success = TRUE
    /\ bus = << >>
    /\ http_log = << >>
    /\ ticks = 0
    /\ polled = FALSE
    /\ afk_ever_cached = FALSE
    /\ \E wr \in {r \in PollWindowResponses : r.status = "ok"},
          ar \in {r \in PollAfkResponses : r.status = "ok"} :
          entries = << LoadedEntry(1, "Test-PC", wr, ar), LoadedEntry(2, "Laptop", wr, ar) >>
    /\ service_call = NoneObj
    /\ service_response = NoneObj
    /\ services = async_register_services(<< >>).services
    /\ host_log = << >>
    /\ flow_input = NoneObj
    /\ flow_result = NoneObj
    /\ server_window = << >>
    /\ client_result = NoneObj

\* a scheduled refresh of the coordinator of a loaded entry
refresh_entry(window_responses, afk_responses) ==
    /\ ticks < MaxTicks
    /\ ticks' = ticks + 1
    /\ \E i \in 1..Len(entries), wr \in window_responses, ar \in afk_responses :
        /\ entries[i].runtime_data # NoneObj
        /\ LET r == coordinator_refresh(entries[i].runtime_data, wr, ar)
           IN  /\ entries' = [entries EXCEPT ![i].runtime_data = r.coordinator]
               /\ bus' = bus \o r.fired
               /\ http_log' = r.calls
    /\ host_log' = << >>
    /\ flow_input' = NoneObj
    /\ flow_result' = NoneObj
    /\ UNCHANGED <<pc, device_name, window_bucket, afk_bucket, previous_window_app, data,
                   last_update_success, polled, afk_ever_cached,
                   service_call, service_response, services, api_vars>>

\* a call of the query_stats service, at any point between refreshes
query_call ==
    /\ \E call_data \in PollServiceCalls, now \in Nows, q \in PollQueryResponses :
        LET h == async_handle_query_stats(entries, call_data, now, q)
        IN  /\ service_call' = call_data
            /\ service_response' = h.response
            /\ http_log' = h.calls
    /\ UNCHANGED <<coordinator_vars, entries, host_vars, api_vars>>

NextConcurrent ==
    \/ refresh_entry(PollWindowResponses, PollAfkResponses)
    \/ query_call

SpecConcurrent == InitConcurrent /\ [][NextConcurrent]_vars

----------------------------------------------------------------------------
(* Properties of the interleaving, checked under SpecConcurrent *)

\* the entries with everything a refresh writes or setup discovers blanked
\* out of their coordinators: only the client reference and the name are left
Blank(config_entries) ==
    [i \in 1..Len(config_entries) |->
        [config_entries[i] EXCEPT !.runtime_data =
            ActivityWatchCoordinator(@.client, @.device_name, @.update_interval)]]

\* the outcome of the query of the latest call, as logged
QueryOutcome(log) == IF log = << >> THEN ConnectionError ELSE log[1].outcome

\* C22: a query_stats call leaves the coordinators (snapshot, baseline, bucket
\* ids) and the notifications as they are, and its response is the one it
\* gives when nothing but the client reference is in the coordinators; a
\* refresh leaves the call and its response alone and acts on the coordinator
\* and the bus exactly as a refresh does with no call made.
C22_QueryIndependentOfPolling ==
    [][ /\ (ticks' = ticks) =>
             /\ entries' = entries
             /\ bus' = bus
             /\ \E now \in Nows :
                  service_response' =
                      async_handle_query_stats(Blank(entries), service_call', now,
                                               QueryOutcome(http_log')).response
        /\ (ticks' = ticks + 1) =>
             /\ service_call' = service_call
             /\ service_response' = service_response
             /\ \E i \in 1..Len(entries), wr \in PollWindowResponses, ar \in PollAfkResponses :
                  LET r == coordinator_refresh(entries[i].runtime_data, wr, ar)
                  IN  /\ entries' = [entries EXCEPT ![i].runtime_data = r.coordinator]
                      /\ bus' = bus \o r.fired ]_vars

\* C22 witness: a query was answered with a total, and the latest operation is
\* a refresh that followed it and emitted the second notification.
C22_Witness ==
    /\ service_response # NoneObj
    /\ service_response.kind = "return"
    /\ service_response.value.total_seconds > 0
    /\ ticks >= 2
    /\ Len(bus) = 2
    /\ http_log # << >>
    /\ http_log[1].call = "async_get_events"

----------------------------------------------------------------------------
(* One entry polled, and reloaded when its options are updated *)

InitReload ==
    /\ pc = "ready"
    /\ device_name = HostEntries[1].data.device_name
    /\ window_bucket = None
    /\ afk_bucket = None
    /\ previous_window_app = None
    /\ data = ActivityWatchData(NoneObj, NoneObj)
    /\ last_update_success = TRUE
    /\ bus = << >>
    /\ http_log = << >>
    /\ ticks = 0
    /\ polled = FALSE
    /\ afk_ever_cached = FALSE
    /\ entries = SubSeq(HostEntries, 1, 1)
    /\ service_call = NoneObj
    /\ service_response = NoneObj
    /\ services = << >>
    /\ host_log = << >>
    /\ flow_input = NoneObj
    /\ flow_result = NoneObj
    /\ server_window = << >>
    /\ client_result = NoneObj

\* an options flow that ends in create_entry on a loaded entry: the host
\* stores the options and, when they changed, calls the update listener
\* _async_options_updated, which reloads the entry: unload, then setup
options_update ==
    \E i \in 1..Len(entries), user_input \in HostOptionInputs \ {NoneObj},
       unload_ok \in BOOLEAN, o \in SetupOutcomes :
        LET validated == options_schema(entries[i].options, user_input)
            created == async_step_init(entries[i], validated.data)
            updated == [entries EXCEPT ![i].options = created.data]
            u == host_unload(updated, i, services, unload_ok)
            s == host_setup(u.entries, i, u.services, o[1], o[2], o[3], o[4], o[5])
        IN  /\ entries[i].state = "loaded"
            /\ validated.valid
            /\ flow_input' = user_input
            /\ flow_result' = created
            /\ IF created.data = entries[i].options
               THEN /\ UNCHANGED <<entries, services, bus>>
                    /\ host_log' = << >>
                    /\ http_log' = << >>
               ELSE IF u.result
               THEN /\ entries' = s.entries
                    /\ services' = s.services
                    /\ bus' = bus \o s.fired
                    /\ host_log' = <<HostCall("async_reload", entries[i].entry_id)>>
                                   \o u.host_calls \o s.host_calls
                    /\ http_log' = s.client_calls
               ELSE /\ entries' = u.entries
                    /\ services' = u.services
                    /\ bus' = bus
                    /\ host_log' = <<HostCall("async_reload", entries[i].entry_id)>>
                                   \o u.host_calls
                    /\ http_log' = << >>
            /\ UNCHANGED <<pc, device_name, window_bucket, afk_bucket, previous_window_app,
                           data, last_update_success, ticks, polled, afk_ever_cached,
                           service_call, service_response, api_vars>>

NextReload ==
    \/ setup_entry
    \/ refresh_entry(PollWindowResponses, PollAfkResponses)
    \/ options_update

SpecReload == InitReload /\ [][NextReload]_vars

----------------------------------------------------------------------------
(* Properties of the reload, checked under SpecReload *)

\* in the step the update listener asked the host to reload the entry
ReloadAsked ==
    /\ Len(host_log') >= 2
    /\ host_log'[1].call = "async_reload"
    /\ host_log'[2].call = "async_unload_platforms"

\* the step reloaded the entry: the reload was asked for and the unload of
\* the platforms succeeded, so the setup was run
Reloaded == ReloadAsked /\ host_log'[2].outcome

\* the step ran a setup of the entry that loaded it
SetUp == entries'[1].state = "loaded" /\ http_log' # << >>
         /\ http_log'[1].call = "async_get_info"

\* C28: an options update that changes the options makes the host reload the
\* entry, which unloads it and, the unload done, sets it up with a new
\* coordinator. The setup emits nothing, whatever app
\* the coordinator before the reload had recorded; the new coordinator lists
\* the buckets again and holds the first buckets of the listings; and its
\* baseline is the app of the window event its first refresh fetched, None
\* (uninitialized) when it fetched none.
C28_ReloadResetsBaseline ==
    [][ /\ ( /\ flow_result' # NoneObj
             /\ flow_result'.type = "create_entry"
             /\ flow_result'.data # entries[1].options ) => ReloadAsked
        /\ Reloaded =>
             /\ bus' = bus
             /\ entries'[1].state \in {"loaded", "setup_retry", "setup_error"}
        /\ (Reloaded /\ SetUp) =>
             LET coordinator == entries'[1].runtime_data
             IN  /\ Len(http_log') >= 4
                 /\ http_log'[2].call = "async_get_buckets"
                 /\ http_log'[3].call = "async_get_buckets"
                 /\ coordinator.window_bucket =
                        FirstOfType(http_log'[2].outcome.body, BUCKET_WINDOW)
                 /\ coordinator.afk_bucket =
                        FirstOfType(http_log'[3].outcome.body, BUCKET_AFK)
                 /\ coordinator.update_interval = entries'[1].options.scan_interval
                 /\ coordinator.data.window_event = Fetched(<<http_log'[4]>>)
                 /\ coordinator._previous_window_app =
                        IF coordinator.data.window_event = NoneObj THEN None
                        ELSE AppOf(coordinator.data.window_event) ]_vars

\* C28 witness: before the reload a refresh had emitted the switch to
\* Firefox; the options were updated to an interval of 300, the entry was
\* reloaded, and the first refresh of the new coordinator fetched Code and
\* emitted nothing.
C28_Witness ==
    /\ entries[1].state = "loaded"
    /\ Len(host_log) >= 2
    /\ host_log[1].call = "async_reload"
    /\ entries[1].runtime_data.update_interval = 300
    /\ entries[1].runtime_data._previous_window_app = "Code"
    /\ Len(bus) = 1
    /\ bus[1].app = "Firefox"

----------------------------------------------------------------------------
(* The coordinator polling a server whose latest window event changes *)

MaxServerEvents == 3    \* window events the server holds one after another

\* the window events the server may hold as its latest
ServerWindowEvents == {w \in WindowEvents : w.id \in {1, 2, 3, 5}}

\* the successions of latest events of the server: an event is followed by
\* another one
ServerTimelines ==
    { t \in SeqUpTo(ServerWindowEvents, MaxServerEvents) :
        /\ t # << >>
        /\ \A i \in 1..(Len(t) - 1) : t[i] # t[i + 1] }

\* what the server answers to a fetch of the latest window event and of the
\* latest AFK event
ServerWindowResponse == Ok(<<Head(server_window)>>)
ServerAfkResponse == Ok(<<CHOOSE a \in AfkEvents : a.id = 10>>)

\* the coordinator as async_setup leaves it, the first refresh being due
InitLive ==
    /\ pc = "first_refresh"
    /\ device_name = "Test-PC"
    /\ window_bucket \in {"aw-watcher-window_host", None}
    /\ afk_bucket \in {"aw-watcher-afk_host", None}
    /\ previous_window_app = None
    /\ data = NoneObj
    /\ last_update_success = TRUE
    /\ bus = << >>
    /\ http_log = << >>
    /\ ticks = 0
    /\ polled = FALSE
    /\ afk_ever_cached = FALSE
    /\ entries = << >>
    /\ service_call = NoneObj
    /\ service_response = NoneObj
    /\ services = << >>
    /\ host_log = << >>
    /\ flow_input = NoneObj
    /\ flow_result = NoneObj
    /\ server_window \in ServerTimelines
    /\ client_result = NoneObj

\* the watcher reports the next window event to the server
server_advance ==
    /\ Len(server_window) > 1
    /\ server_window' = Tail(server_window)
    /\ UNCHANGED <<coordinator_vars, http_log, service_vars, host_vars, client_result>>

\* one refresh scheduled by the host, the fetches answered by one of the
\* given responses; refreshes are scheduled without end, so the count of
\* them stops at MaxTicks
poll(window_responses, afk_responses) ==
    /\ pc \in {"first_refresh", "ready"}
    /\ ticks' = IF ticks < MaxTicks THEN ticks + 1 ELSE ticks
    /\ \E wr \in window_responses, ar \in afk_responses :
        LET u == _async_update_data(wr, ar)
            f == _fire_window_switch_event(previous_window_app, device_name, u.data)
        IN  /\ http_log' = u.calls
            /\ IF u.UpdateFailed
               THEN /\ last_update_success' = FALSE
                    /\ pc' = IF pc = "first_refresh" THEN "setup_failed" ELSE pc
                    /\ UNCHANGED <<data, previous_window_app, bus, polled, afk_ever_cached>>
               ELSE /\ last_update_success' = TRUE
                    /\ pc' = "ready"
                    /\ data' = u.data
                    /\ previous_window_app' = f.previous_window_app
                    /\ bus' = bus \o f.fired
                    /\ polled' = (polled \/ u.data.window_event # NoneObj)
                    /\ afk_ever_cached' = (afk_ever_cached \/ u.data.afk_event # NoneObj)
    /\ UNCHANGED <<device_name, window_bucket, afk_bucket, service_vars, host_vars, api_vars>>

\* a scheduled refresh, whose fetches the server answers or fail
scheduled_refresh == poll({ServerWindowResponse} \cup Errors, {ServerAfkResponse} \cup Errors)

\* a scheduled refresh whose fetches the server answers
successful_refresh == poll({ServerWindowResponse}, {ServerAfkResponse})

NextLive == server_advance \/ scheduled_refresh

\* refreshes keep being scheduled and, after any number of failed ones, one
\* succeeds
SpecLive == InitLive /\ [][NextLive]_vars /\ WF_vars(successful_refresh)

----------------------------------------------------------------------------
(* Liveness of the switch detection, checked under SpecLive *)

ServerApp == AppOf(Head(server_window))

ServerApps == {AppOf(w) : w \in ServerWindowEvents}

\* C29: when a coordinator with a window bucket has recorded a baseline and
\* the server's latest window event from now on has an app B other than the
\* baseline, a notification with app B is eventually emitted, and it is the
\* only one emitted from now on.
C29_SwitchEventuallyNotified ==
    \A B \in ServerApps : \A n \in 0..MaxServerEvents :
        []( ( /\ pc = "ready"
              /\ truthy(window_bucket)
              /\ polled
              /\ previous_window_app # B
              /\ Len(bus) = n
              /\ [](ServerApp = B) )
            => <>[](Len(bus) = n + 1 /\ bus[n + 1].app = B) )

=============================================================================
